---- MODULE Spec2Model ----
(***************************************************************************)
(* State-machine model of the MXP transport packet engine                  *)
(* (yafatek/mxp-protocol, src/src/transport).                              *)
(*                                                                         *)
(* The module holds one specification per component:                       *)
(*   SpecRecv    RecvBuffer (stream reassembly)           stream.rs        *)
(*   SpecCipher  PacketCipher seal_into / open            packet_crypto.rs *)
(* Each specification drives only its own component's variables; the       *)
(* variables of the other components keep their constructed value.         *)
(***************************************************************************)
EXTENDS Integers, Sequences, FiniteSets, TLC

VARIABLES
    recv,        \* RecvBuffer {delivered_offset, ready, pending, final_offset}
    delivered,   \* history: concatenation of everything read() returned
    ingested,    \* history: offsets of S carried by successful ingest calls
    recvRes,     \* result of the last RecvBuffer call
    ciphers,     \* the two PacketCipher objects: "client" seals, "server" opens
    wire,        \* history: every packet seal_into produced, with its inputs, in order
    accepted,    \* history: every packet open accepted, with its number, in order
    sealRes,     \* the last seal_into call: result, and whether the cipher changed
    openRes,     \* the last open call: result and cipher before / after
    win,         \* a FlowWindow {max_data, consumed}
    winRes,      \* the last FlowWindow call: operation, argument, window before, result
    fc,          \* a FlowController {connection, streams}
    fcTotals,    \* history: per stream, the sum of the amounts consumed successfully
    fcRes,       \* result of the last FlowController call
    mgr,         \* a StreamManager {streams, flow}
    mgrSent,     \* history: per stream, the payload bytes poll_send_chunk returned
    mgrLimits,   \* history: the largest limits set on the manager so far
    mgrRes,      \* the last queue_send, finish or poll_send_chunk call and its result
    loss,        \* a LossManager
    clock,       \* the time of the last LossManager call
    sentLog,     \* history: the records passed to on_packet_sent, in order
    ackedLog,    \* history: the records reported in AckOutcome.acknowledged
    lostLog,     \* history: the records reported lost, and by which call
    reports,     \* history: how many records were reported, acknowledged or lost
    hist,        \* a ReceiveHistory
    recorded,    \* history: the packet numbers handed to record
    exceeded,    \* history: the recorded numbers once formed more runs than max_ranges
    histRes,     \* the last ReceiveHistory call and its result
    ticketMgr,   \* a SessionTicketManager
    ticketClock, \* SystemTime::now() as the ticket store reads it
    issuedLog,   \* history: the tickets issued, with their seed and counter
    ticketRes,   \* the last SessionTicketManager call and its result
    amp,         \* an AntiAmplificationGuard
    ampTotals,   \* history: bytes received, bytes granted, and the number of calls
    ampRes,      \* the last AntiAmplificationGuard call, its result, the guard before
    cc,          \* a CongestionController
    ccCalls,     \* history: the number of calls on the controller
    initiator,   \* an Initiator {state, stage, remote_static, anti_replay}
    responder,   \* a Responder {state, stage, anti_replay, tickets}
    hsClock,     \* SystemTime::now() as the handshake reads it, in whole seconds
    hsWire,      \* history: the handshake messages the two peers produced
    initRes,     \* the last Initiator call and its result
    respRes,     \* the last Responder call and its result
    hsHist,      \* history: stages visited, errors returned, keys issued, calls made
    enginePc,    \* the position of the packet engine's loop within its step
    client,      \* the Endpoint that sends the messages
    server,      \* the Endpoint that receives them
    link,        \* the SimLink between the two
    stream,      \* a Stream {send, recv} used through its send side
    streamLog,   \* history: bytes queued, chunks returned, finish and polls made
    streamRes,   \* the last call on the stream's send side and its result
    ingestLog,   \* history: offsets and FIN ingested, bytes read, ingest calls made
    ingestRes,   \* the last call on the stream's receive side, the receive
                 \* state it found and its result
    sched,       \* a Scheduler {streams, datagrams, sequence}
    schedLog,    \* history: pushes made, the entries waiting in push order,
                 \* the sequence numbers of the entries popped
    schedRes,    \* the last call on the scheduler, what it returned and the
                 \* entry that was due
    dgQueue,     \* a DatagramQueue {config, queue}
    dgGuard,     \* the AntiAmplificationGuard handed to dequeue_with_guard
    dgLog,       \* history: payloads enqueued and payloads handed out, in order
    dgRes,       \* the last call on the queue, the queue and guard it found
                 \* and its result
    pool,        \* the PoolInner of a shared BufferPool; the Mutex of its FIFO
                 \* is the field lock, 0 when free, else the thread holding it
    poolThreads, \* per thread: where it stands in acquire or drop, the lease
                 \* it holds, the buffer it is handling, its last acquire
    poolLog,     \* history: allocations made, acquires begun, the allocations
                 \* a lease holder wrote into
    frameIn,     \* the arguments of AckFrame::new in this run
    mgrAcked,    \* history: per stream of the manager, how much of what
                 \* poll_send_chunk returned went in packets acknowledged since
    replayStore, \* an AntiReplayStore
    replayClock, \* SystemTime::now() of the store, in seconds
    replayLog,   \* history: the payloads record accepted, with their times
    replayRes,   \* the last record call, the history before it and its result
    frameRes     \* what AckFrame::new returned, the words encode wrote for the
                 \* frame, what decode made of them

recvVars == <<recv, delivered, ingested, recvRes>>
cipherVars == <<ciphers, wire, accepted, sealRes, openRes>>

windowVars == <<win, winRes>>
flowVars == <<fc, fcTotals, fcRes>>

mgrVars == <<mgr, mgrSent, mgrLimits, mgrRes>>

lossVars == <<loss, clock, sentLog, ackedLog, lostLog, reports>>

histVars == <<hist, recorded, exceeded, histRes>>

\* the components of the data path, and those of the control path
dataVars == <<recvVars, cipherVars, windowVars, flowVars, mgrVars, lossVars>>
ticketVars == <<ticketMgr, ticketClock, issuedLog, ticketRes>>
ampVars == <<amp, ampTotals, ampRes>>
ccVars == <<cc, ccCalls>>
controlVars == <<histVars, ticketVars, ampVars, ccVars>>

hsVars == <<initiator, responder, hsClock, hsWire, initRes, respRes, hsHist>>
engineVars == <<enginePc, client, server, link>>
sessionVars == <<hsVars, engineVars>>

\* the components that are exercised on their own
streamVars == <<stream, streamLog, streamRes, ingestLog, ingestRes>>
schedVars == <<sched, schedLog, schedRes>>
dgramVars == <<dgQueue, dgGuard, dgLog, dgRes>>
poolVars == <<pool, poolThreads, poolLog>>
frameVars == <<frameIn, frameRes>>
lifeVars == <<mgrAcked>>
replayVars == <<replayStore, replayClock, replayLog, replayRes>>
unitVars == <<streamVars, schedVars, dgramVars, poolVars, frameVars, lifeVars, replayVars>>

vars == <<dataVars, controlVars, sessionVars, unitVars>>

\* the variables each component's operations leave alone
notRecv == <<cipherVars, windowVars, flowVars, mgrVars, lossVars, controlVars, sessionVars, unitVars>>
notCipher == <<recvVars, windowVars, flowVars, mgrVars, lossVars, controlVars, sessionVars, unitVars>>
notWindow == <<recvVars, cipherVars, flowVars, mgrVars, lossVars, controlVars, sessionVars, unitVars>>
notFlow == <<recvVars, cipherVars, windowVars, mgrVars, lossVars, controlVars, sessionVars, unitVars>>
notMgr == <<recvVars, cipherVars, windowVars, flowVars, lossVars, controlVars, sessionVars, unitVars>>
notLoss == <<recvVars, cipherVars, windowVars, flowVars, mgrVars, controlVars, sessionVars, unitVars>>
notHist == <<dataVars, ticketVars, ampVars, ccVars, sessionVars, unitVars>>
notTicket == <<dataVars, histVars, ampVars, ccVars, sessionVars, unitVars>>
notAmp == <<dataVars, histVars, ticketVars, ccVars, sessionVars, unitVars>>
notCc == <<dataVars, histVars, ticketVars, ampVars, sessionVars, unitVars>>
notLossCc == <<recvVars, cipherVars, windowVars, flowVars, mgrVars,
               histVars, ticketVars, ampVars, sessionVars, unitVars>>
notHs == <<dataVars, controlVars, engineVars, unitVars>>
notEngine == <<dataVars, controlVars, hsVars, unitVars>>
notStream == <<dataVars, controlVars, sessionVars, schedVars, dgramVars, poolVars, frameVars, lifeVars, replayVars>>
notReplay == <<dataVars, controlVars, sessionVars, streamVars, schedVars, dgramVars, poolVars, frameVars, lifeVars>>
notLife == <<dataVars, controlVars, sessionVars, streamVars, schedVars, dgramVars, poolVars, frameVars, replayVars>>
notFrame == <<dataVars, controlVars, sessionVars, streamVars, schedVars, dgramVars, poolVars, lifeVars, replayVars>>
notPool == <<dataVars, controlVars, sessionVars, streamVars, schedVars, dgramVars, frameVars, lifeVars, replayVars>>
notDgram == <<dataVars, controlVars, sessionVars, streamVars, schedVars, poolVars, frameVars, lifeVars, replayVars>>
notSched == <<dataVars, controlVars, sessionVars, streamVars, dgramVars, poolVars, frameVars, lifeVars, replayVars>>

(***************************************************************************)
(* Generic helpers                                                         *)
(***************************************************************************)
None == [some |-> FALSE, v |-> 0]
Some(x) == [some |-> TRUE, v |-> x]

MinNat(a, b) == IF a <= b THEN a ELSE b
MaxNat(a, b) == IF a >= b THEN a ELSE b

SetMin(S) == CHOOSE x \in S : \A y \in S : x <= y
SetMax(S) == CHOOSE x \in S : \A y \in S : x >= y

IsPrefix(s, t) == Len(s) <= Len(t) /\ s = SubSeq(t, 1, Len(s))

\* width in bits of the modelled u64 byte counters and offsets
U64Bits == 3
U64_MAX == 2 ^ U64Bits - 1

\* F applied to the value of v, with v evaluated once
With(v, F(_)) == CHOOSE y \in {F(x) : x \in {v}} : TRUE

saturating_sub(a, b) == IF a >= b THEN a - b ELSE 0
saturating_add(a, b) == MinNat(a + b, U64_MAX)

(***************************************************************************)
(* Bounds of the stream model                                              *)
(***************************************************************************)
\* length of the sender's byte stream S
StreamLen == 3
\* longest chunk handed to ingest, and largest max_len handed to read
MaxChunk == 2

\* the sender's byte stream: byte i of the stream has value i (all distinct)
StreamS == [i \in 1..StreamLen |-> i]

\* the byte strings an ingest call may carry: any run of bytes of S
Chunks == {SubSeq(StreamS, i, j) : i \in 1..(StreamLen + 1), j \in 0..StreamLen}
ChunkInputs == {c \in Chunks : Len(c) <= MaxChunk}

\* the chunk (offset, data, fin) agrees with S: data are the bytes of S at
\* offset, and a FIN marks the end of S
ConsistentChunk(offset, data, fin) ==
    /\ offset + Len(data) <= StreamLen
    /\ data = SubSeq(StreamS, offset + 1, offset + Len(data))
    /\ fin => offset + Len(data) = StreamLen

(***************************************************************************)
(* RecvBuffer (stream.rs)                                                  *)
(***************************************************************************)
RecvBufferDefault ==
    [delivered_offset |-> 0, ready |-> <<>>, pending |-> <<>>, final_offset |-> None]

\* BTreeMap::remove: the map without key k
MapRemove(m, k) == [x \in (DOMAIN m) \ {k} |-> m[x]]
\* BTreeMap insert / overwrite of key k
MapPut(m, k, val) == [x \in (DOMAIN m) \cup {k} |-> IF x = k THEN val ELSE m[x]]

\* promote_pending with the start test slackened to "not after" the next
\* offset: a chunk that starts before delivered_offset + |ready| is promoted too
RECURSIVE promote_pending_overlap(_)
promote_pending_overlap(rb) ==
    LET next_offset == rb.delivered_offset + Len(rb.ready) IN
    IF DOMAIN rb.pending = {} THEN rb
    ELSE LET offset == SetMin(DOMAIN rb.pending) IN
         IF offset > next_offset THEN rb
         ELSE promote_pending_overlap([rb EXCEPT
                 !.ready = rb.ready \o rb.pending[offset],
                 !.pending = MapRemove(rb.pending, offset)])

\* promote_pending: move the first pending chunk into ready while it starts
\* exactly at delivered_offset + |ready|
RECURSIVE promote_pending(_)
promote_pending(rb) ==
    LET next_offset == rb.delivered_offset + Len(rb.ready) IN
    IF DOMAIN rb.pending = {} THEN rb
    ELSE LET offset == SetMin(DOMAIN rb.pending) IN
         IF offset # next_offset THEN rb
         ELSE With([rb EXCEPT
                       !.ready = rb.ready \o rb.pending[offset],
                       !.pending = MapRemove(rb.pending, offset)], promote_pending)

\* RecvBuffer::ingest: the buffer after the call and the call's result
ingest(rb, offset, data, fin) ==
    IF rb.final_offset.some /\ saturating_add(offset, Len(data)) > rb.final_offset.v
    THEN [rb |-> rb, res |-> [err |-> "DataBeyondFinalOffset", offset |-> offset]]
    ELSE IF data = <<>> /\ ~fin
    THEN [rb |-> rb, res |-> [err |-> "Ok", offset |-> offset]]
    ELSE LET entry == IF offset \in DOMAIN rb.pending THEN rb.pending[offset] ELSE <<>> IN
         IF entry # <<>> /\ entry # data
         THEN [rb |-> rb, res |-> [err |-> "ConflictingData", offset |-> offset]]
         ELSE LET stored == IF entry = <<>> THEN data ELSE entry
                  end == saturating_add(offset, Len(data))
                  fo == IF fin
                        THEN Some(IF rb.final_offset.some
                                  THEN MaxNat(rb.final_offset.v, end) ELSE end)
                        ELSE rb.final_offset
              IN [rb |-> With([rb EXCEPT
                                  !.pending = MapPut(rb.pending, offset, stored),
                                  !.final_offset = fo], promote_pending),
                  res |-> [err |-> "Ok", offset |-> offset]]

\* RecvBuffer::read: the buffer after the call and the bytes returned
read(rb, max_len) ==
    LET take == MinNat(Len(rb.ready), max_len) IN
    [rb |-> [rb EXCEPT !.ready = SubSeq(rb.ready, take + 1, Len(rb.ready)),
                       !.delivered_offset = saturating_add(rb.delivered_offset, take)],
     out |-> SubSeq(rb.ready, 1, take)]

\* a received_fin that looks at the final offset only
received_fin_known(rb) == rb.final_offset.some

\* RecvBuffer::received_fin
received_fin(rb) ==
    rb.final_offset.some /\ rb.delivered_offset + Len(rb.ready) >= rb.final_offset.v

InitRecv ==
    /\ recv = RecvBufferDefault
    /\ delivered = <<>>
    /\ ingested = {}
    /\ recvRes = [err |-> "Ok", offset |-> 0]

\* Stream::ingest(offset, data, fin), for a chunk that agrees with S
Ingest(offset, data, fin) ==
    LET r == ingest(recv, offset, data, fin) IN
    /\ ConsistentChunk(offset, data, fin)
    /\ recv' = r.rb
    /\ recvRes' = r.res
    /\ ingested' = IF r.res.err = "Ok"
                   THEN ingested \cup {offset + i : i \in 0..(Len(data) - 1)}
                   ELSE ingested
    /\ UNCHANGED delivered
    /\ UNCHANGED notRecv

\* Stream::read(max_len)
Read(max_len) ==
    LET r == read(recv, max_len) IN
    /\ recv' = r.rb
    /\ delivered' = delivered \o r.out
    /\ recvRes' = [err |-> "Ok", offset |-> recv.delivered_offset]
    /\ UNCHANGED ingested
    /\ UNCHANGED notRecv

NextRecv ==
    \/ \E offset \in 0..StreamLen, data \in ChunkInputs, fin \in BOOLEAN :
          Ingest(offset, data, fin)
    \/ \E max_len \in 0..MaxChunk : Read(max_len)

(***************************************************************************)
(* Packet header codec (packet.rs)                                         *)
(*                                                                         *)
(* A packet is [head, body].  head is the encoded header, one cell per     *)
(* header field except that the u16 payload length is its two LE bytes and *)
(* the nonce its 12 bytes:                                                 *)
(*   <<conn_id, packet_number, flags, reserved, len_lo, len_hi, nonce..>>  *)
(* body is the byte string that follows the header (ciphertext, tag).      *)
(* The u64 packet number is kept PnBits wide, so that the counter's        *)
(* wrap-around is within reach of the model.                               *)
(***************************************************************************)
\* width in bits of the modelled packet-number counter (u64 in the code)
PnBits == 2
PnMod == 2 ^ PnBits

HEADER_SIZE == 32
NONCE_SIZE == 12
AEAD_TAG_LEN == 16
HEADER_PROTECTION_SAMPLE_LEN == 16
U16_MAX == 65535
ACK_ELICITING == 2

RECURSIVE Xor(_, _)
\* bitwise exclusive or of two naturals
Xor(a, b) ==
    IF a = 0 THEN b
    ELSE IF b = 0 THEN a
    ELSE (((a % 2) + (b % 2)) % 2) + 2 * Xor(a \div 2, b \div 2)

RECURSIVE WSumTo(_, _)
\* position-weighted sum of the first n bytes of seq
WSumTo(seq, n) ==
    IF n = 0 THEN 0 ELSE (WSumTo(seq, n - 1) + (2 * n + 1) * seq[n]) % 256

\* position-weighted byte sum: the digest the abstract keyed functions use
WSum(seq) == WSumTo(seq, Len(seq))

\* PacketHeader::new followed by set_nonce
PacketHeader(conn_id, packet_number, payload_len, flags, nonce) ==
    [conn_id |-> conn_id, packet_number |-> packet_number, flags |-> flags,
     payload_len |-> payload_len, reserved |-> 0, nonce |-> nonce]

\* PacketHeader::encode
encode(h) ==
    <<h.conn_id, h.packet_number, h.flags, h.reserved,
      h.payload_len % 256, h.payload_len \div 256>> \o h.nonce

\* PacketHeader::decode (the buffer holds a whole header)
decode(buf) ==
    IF buf[4] # 0
    THEN [err |-> "ReservedBitsSet", a |-> buf[4], header |-> PacketHeader(0, 0, 0, 0, <<>>)]
    ELSE [err |-> "Ok", a |-> 0,
          header |-> [conn_id |-> buf[1], packet_number |-> buf[2], flags |-> buf[3],
                      payload_len |-> buf[5] + 256 * buf[6], reserved |-> buf[4],
                      nonce |-> SubSeq(buf, 7, 6 + NONCE_SIZE)]]

(***************************************************************************)
(* Nonce derivation (handshake.rs), AEAD (crypto/aead.rs), header          *)
(* protection                                                              *)
(***************************************************************************)
\* byte idx of n.to_le_bytes(), for the n < 2^32 the model holds
LeByte(n, idx) == IF idx >= 4 THEN 0 ELSE (n \div (256 ^ idx)) % 256

\* nonce_from_packet_number
nonce_from_packet_number(packet_number) ==
    [i \in 1..NONCE_SIZE |-> (LeByte(packet_number, (i - 1) % 8) + (i - 1) * 17) % 256]

\* chacha20_block / chacha20_xor keystream byte i for (key, counter, nonce):
\* a deterministic keyed function of all three
keystream(key, counter, nonce, i) ==
    (key + 31 * counter + WSum(nonce) + 7 * i) % 256

\* chacha20_xor with counter 1
chacha20_xor(key, nonce, data) ==
    [i \in 1..Len(data) |-> Xor(data[i], keystream(key, 1, nonce, i))]

\* poly_key then compute_mac: the 16-byte tag over aad and ciphertext
compute_mac(key, nonce, aad, ciphertext) ==
    LET h == (keystream(key, 0, nonce, 0) + 3 * WSum(aad) + 5 * WSum(ciphertext)
              + Len(aad) + 11 * Len(ciphertext)) % 256
    IN [i \in 1..AEAD_TAG_LEN |-> (h + 17 * i) % 256]

\* aead::seal (crypto::encrypt)
encrypt(key, nonce, plaintext, aad) ==
    LET ciphertext == chacha20_xor(key, nonce, plaintext) IN
    [ciphertext |-> ciphertext, tag |-> compute_mac(key, nonce, aad, ciphertext)]

\* aead::open (crypto::decrypt)
decrypt(key, nonce, ciphertext, aad, tag) ==
    IF compute_mac(key, nonce, aad, ciphertext) # tag
    THEN [err |-> "AuthenticationFailed", plaintext |-> <<>>]
    ELSE [err |-> "Ok", plaintext |-> chacha20_xor(key, nonce, ciphertext)]

\* build_header_sample: the first 16 body bytes, zero padded
build_header_sample(body) ==
    [i \in 1..HEADER_PROTECTION_SAMPLE_LEN |-> IF i <= Len(body) THEN body[i] ELSE 0]

\* header_protection_mask: a deterministic function of the key and of the
\* whole sample; one mask for the flags byte, one for the packet number
header_protection_mask(hp_key, sample) ==
    LET digest == WSum(sample) IN
    [flags |-> (hp_key + digest) % 256,
     pn |-> (3 * hp_key + 1 + digest) % PnMod]

\* apply_header_mask: xor the mask into the flags byte and the packet number
apply_header_mask(bytes, mask) ==
    [bytes EXCEPT ![3] = Xor(bytes[3], mask.flags), ![2] = Xor(bytes[2], mask.pn)]

(***************************************************************************)
(* PacketCipher (packet_crypto.rs)                                         *)
(***************************************************************************)
\* SessionKeys::new(send, receive, send_hp, receive_hp)
SessionKeys(send, receive, send_hp, receive_hp) ==
    [send |-> send, receive |-> receive, send_hp |-> send_hp, receive_hp |-> receive_hp]

\* PacketCipher::new
PacketCipherNew(keys) ==
    [send_key |-> keys.send, receive_key |-> keys.receive,
     send_hp |-> keys.send_hp, receive_hp |-> keys.receive_hp,
     send_packet_number |-> 0, highest_received |-> None]

\* PacketCipher::with_initial_numbers
with_initial_numbers(c, send, highest_received) ==
    [c EXCEPT !.send_packet_number = send, !.highest_received = highest_received]

\* the number of bytes of a packet
PacketLen(packet) == HEADER_SIZE + Len(packet.body)

\* the result of a seal_into or open call: the error (or "Ok"), the error's
\* two fields, and for a successful open the header and plaintext
CallResult(err, a, b, header, payload) ==
    [err |-> err, a |-> a, b |-> b, header |-> header, payload |-> payload]
NoHeader == PacketHeader(0, 0, 0, 0, <<>>)
Failure(err, a, b) == CallResult(err, a, b, NoHeader, <<>>)
NoPacket == [head |-> <<>>, body |-> <<>>]

\* the payload_len field seal_into writes: plaintext plus tag
seal_payload_len_no_tag(payload_len) == payload_len
seal_payload_len(payload_len) == payload_len + AEAD_TAG_LEN

\* send_packet_number.wrapping_add(1), at the modelled width
wrapping_add_one(n) == (n + 1) % PnMod

\* PacketCipher::seal_into: the cipher after the call, the result
\* (a = packet number, b = total length) and the packet written.
\* payload_len is payload.len(); buffer_len is buffer.len().
seal_into(c, conn_id, flags, payload, payload_len, buffer_len) ==
    LET max_payload == U16_MAX - AEAD_TAG_LEN
        total_len == HEADER_SIZE + payload_len + AEAD_TAG_LEN
    IN
    IF payload_len > max_payload
    THEN [cipher |-> c, res |-> Failure("PayloadTooLarge", payload_len, max_payload),
          packet |-> NoPacket]
    ELSE IF buffer_len < total_len
    THEN [cipher |-> c, res |-> Failure("BufferTooSmall", total_len, buffer_len),
          packet |-> NoPacket]
    ELSE LET packet_number == c.send_packet_number
             nonce == nonce_from_packet_number(packet_number)
             header == PacketHeader(conn_id, packet_number,
                                    seal_payload_len(payload_len), flags, nonce)
             head == encode(header)
             sealed == encrypt(c.send_key, nonce, payload, head)
             body == sealed.ciphertext \o sealed.tag
             mask == header_protection_mask(c.send_hp, build_header_sample(body))
         IN [cipher |-> [c EXCEPT !.send_packet_number = wrapping_add_one(packet_number)],
             res |-> CallResult("Ok", packet_number, total_len, header, payload),
             packet |-> [head |-> apply_header_mask(head, mask), body |-> body]]

\* the replay test of open, without and with the equal case
replay_detected_below(highest_received, packet_number) ==
    highest_received.some /\ packet_number < highest_received.v
replay_detected(highest_received, packet_number) ==
    highest_received.some /\ packet_number <= highest_received.v

\* the new high-water mark of open
new_highest(highest_received, packet_number) ==
    IF highest_received.some THEN MaxNat(highest_received.v, packet_number)
    ELSE packet_number

\* the end of open with the high-water mark advanced before the AEAD verdict
open_commit_early(c, header, dec) ==
    [cipher |-> [c EXCEPT !.highest_received =
                    Some(new_highest(c.highest_received, header.packet_number))],
     res |-> IF dec.err # "Ok" THEN Failure(dec.err, 0, 0)
             ELSE CallResult("Ok", header.packet_number, 0, header, dec.plaintext)]

\* the end of open: decrypt's error leaves the cipher as it was, success
\* advances highest_received
open_commit(c, header, dec) ==
    IF dec.err # "Ok"
    THEN [cipher |-> c, res |-> Failure(dec.err, 0, 0)]
    ELSE [cipher |-> [c EXCEPT !.highest_received =
                         Some(new_highest(c.highest_received, header.packet_number))],
          res |-> CallResult("Ok", header.packet_number, 0, header, dec.plaintext)]

\* PacketCipher::open: the cipher after the call and the result
open(c, packet) ==
    LET body == packet.body IN
    IF PacketLen(packet) < HEADER_SIZE + AEAD_TAG_LEN
    THEN [cipher |-> c,
          res |-> Failure("PacketBufferTooSmall", HEADER_SIZE + AEAD_TAG_LEN, PacketLen(packet))]
    ELSE IF Len(body) < HEADER_PROTECTION_SAMPLE_LEN
    THEN [cipher |-> c,
          res |-> Failure("BufferTooSmall", HEADER_PROTECTION_SAMPLE_LEN, Len(body))]
    ELSE
    LET mask == header_protection_mask(c.receive_hp, build_header_sample(body))
        unmasked_header == apply_header_mask(packet.head, mask)
        d == decode(unmasked_header)
    IN
    IF d.err # "Ok" THEN [cipher |-> c, res |-> Failure(d.err, d.a, 0)]
    ELSE
    LET header == d.header
        payload_len == header.payload_len
    IN
    IF payload_len < AEAD_TAG_LEN
    THEN [cipher |-> c, res |-> Failure("PacketBufferTooSmall", AEAD_TAG_LEN, payload_len)]
    ELSE IF Len(body) < payload_len
    THEN [cipher |-> c, res |-> Failure("PacketBufferTooSmall", payload_len, Len(body))]
    ELSE
    LET cipher_len == payload_len - AEAD_TAG_LEN
        ciphertext == SubSeq(body, 1, cipher_len)
        tag == SubSeq(body, cipher_len + 1, cipher_len + AEAD_TAG_LEN)
    IN
    IF replay_detected(c.highest_received, header.packet_number)
    THEN [cipher |-> c,
          res |-> Failure("ReplayDetected", header.packet_number, c.highest_received.v)]
    ELSE open_commit(c, header,
                     decrypt(c.receive_key, header.nonce, ciphertext, unmasked_header, tag))

(***************************************************************************)
(* The cipher pair: the client seals, the server (mirrored keys) opens     *)
(* whatever arrives, in any order, any number of times, intact or altered. *)
(***************************************************************************)
\* packets sealed in one run of the model
MaxPackets == 2

\* the session keys of packet_crypto.rs' tests, and their mirror image
ClientKeys == SessionKeys(17, 34, 51, 68)
Mirrored(keys) == SessionKeys(keys.receive, keys.send, keys.receive_hp, keys.send_hp)

ConnIds == {43605}
\* the (flags, payload) pairs handed to seal_into: an empty packet without
\* flags and the tests' ack-eliciting "hp"
SealInputs == {[flags |-> 0, payload |-> <<>>],
               [flags |-> ACK_ELICITING, payload |-> <<104, 112>>]}
BufferLens == {HEADER_SIZE + AEAD_TAG_LEN, 128}
InitialSendNumbers == {0, PnMod - 1}
InitialHighest == {None, Some(0)}

\* what the network may hand to open in place of a sealed packet
Tampers == {"intact", "truncated", "flip_first", "flip_last", "reserved",
            "packet_number", "len_small", "len_big"}

Tamper(p, kind) ==
    CASE kind = "intact" -> p
      [] kind = "truncated" -> [p EXCEPT !.body = SubSeq(p.body, 1, AEAD_TAG_LEN - 1)]
      [] kind = "flip_first" -> [p EXCEPT !.body[1] = Xor(p.body[1], 1)]
      [] kind = "flip_last" -> [p EXCEPT !.body[Len(p.body)] = Xor(p.body[Len(p.body)], 1)]
      [] kind = "reserved" -> [p EXCEPT !.head[4] = 1]
      [] kind = "packet_number" -> [p EXCEPT !.head[2] = Xor(p.head[2], 1)]
      [] kind = "len_small" -> [p EXCEPT !.head[5] = 0, !.head[6] = 0]
      [] kind = "len_big" -> [p EXCEPT !.head[6] = 1]

\* no call made yet
NoSeal == [res |-> Failure("None", 0, 0), consumed |-> FALSE]
NoOpen == [res |-> Failure("None", 0, 0), packet |-> NoPacket,
           before |-> PacketCipherNew(ClientKeys), after |-> PacketCipherNew(ClientKeys)]

InitCipher ==
    /\ \E send \in InitialSendNumbers, highest \in InitialHighest :
          ciphers = [client |-> with_initial_numbers(PacketCipherNew(ClientKeys), send, None),
                     server |-> with_initial_numbers(PacketCipherNew(Mirrored(ClientKeys)),
                                                     0, highest)]
    /\ wire = {}
    /\ accepted = {}
    /\ sealRes = NoSeal
    /\ openRes = NoOpen

\* client.seal_into(conn_id, flags, payload, buffer); an oversize payload is
\* represented by its length alone
Seal(conn_id, flags, payload, oversize, buffer_len) ==
    LET payload_len == IF oversize THEN U16_MAX - AEAD_TAG_LEN + 1 ELSE Len(payload)
        r == seal_into(ciphers.client, conn_id, flags, payload, payload_len, buffer_len)
    IN
    /\ Cardinality(wire) < MaxPackets
    /\ ciphers' = [ciphers EXCEPT !.client = r.cipher]
    /\ sealRes' = [res |-> Failure(r.res.err, r.res.a, r.res.b),
                   consumed |-> r.cipher # ciphers.client]
    /\ wire' = IF r.res.err = "Ok"
               THEN wire \cup {[packet |-> r.packet, conn_id |-> conn_id, flags |-> flags,
                                payload |-> payload, pn |-> r.res.a,
                                seq |-> Cardinality(wire)]}
               ELSE wire
    /\ UNCHANGED <<accepted, openRes>>
    /\ UNCHANGED notCipher

\* server.open(packet) for a sealed packet as the network delivers it
Open(w, kind) ==
    LET packet == Tamper(w.packet, kind)
        r == open(ciphers.server, packet)
    IN
    /\ ciphers' = [ciphers EXCEPT !.server = r.cipher]
    /\ openRes' = [res |-> r.res, packet |-> packet,
                   before |-> ciphers.server, after |-> r.cipher]
    /\ accepted' = IF r.res.err = "Ok"
                   THEN accepted \cup {[packet |-> packet, pn |-> r.res.a,
                                         seq |-> Cardinality(accepted)]}
                   ELSE accepted
    /\ UNCHANGED <<wire, sealRes>>
    /\ UNCHANGED notCipher

NextCipher ==
    \/ \E conn_id \in ConnIds, in \in SealInputs,
          oversize \in BOOLEAN, buffer_len \in BufferLens :
          Seal(conn_id, in.flags, in.payload, oversize, buffer_len)
    \/ \E w \in wire, kind \in Tampers : Open(w, kind)

(***************************************************************************)
(* Flow control (flow.rs)                                                  *)
(*                                                                         *)
(* u64 byte counts are kept U64Bits wide (see the generic helpers), so     *)
(* that u64::MAX and the saturating arithmetic are within reach of the     *)
(* model.                                                                  *)
(***************************************************************************)
RECURSIVE SumOver(_, _)
\* the sum of f[x] over x in S
SumOver(f, S) ==
    IF S = {} THEN 0
    ELSE LET x == CHOOSE y \in S : TRUE IN f[x] + SumOver(f, S \ {x})

\* FlowWindow::new
FlowWindowNew(max_data) == [max_data |-> max_data, consumed |-> 0]

\* update_limit that takes any new value, smaller ones too
update_limit_any(w, new_max) == [w EXCEPT !.max_data = new_max]

\* FlowWindow::update_limit
update_limit(w, new_max) ==
    IF new_max > w.max_data THEN [w EXCEPT !.max_data = new_max] ELSE w

\* FlowWindow::available
available(w) == saturating_sub(w.max_data, w.consumed)

\* the result of a flow-control call
FlowOk == [err |-> "Ok", available |-> 0, attempted |-> 0]
SendWindowExceeded(avail, attempted) ==
    [err |-> "SendWindowExceeded", available |-> avail, attempted |-> attempted]

\* FlowWindow::consume: the window after the call and the result
consume(w, amount) ==
    IF amount > available(w)
    THEN [w |-> w, res |-> SendWindowExceeded(available(w), amount)]
    ELSE [w |-> [w EXCEPT !.consumed = saturating_add(w.consumed, amount)],
          res |-> FlowOk]

\* FlowController::new
FlowControllerNew(connection_limit) ==
    [connection |-> FlowWindowNew(connection_limit), streams |-> <<>>]

\* FlowController::update_connection_limit
update_connection_limit(ctl, new_limit) ==
    [ctl EXCEPT !.connection = update_limit(ctl.connection, new_limit)]

\* FlowController::stream_window_mut: the controller with the stream's window
\* in place, created with the connection's limit when absent
stream_window_mut(ctl, id) ==
    IF id \in DOMAIN ctl.streams THEN ctl
    ELSE [ctl EXCEPT !.streams = MapPut(ctl.streams, id, FlowWindowNew(ctl.connection.max_data))]

\* FlowController::update_stream_limit
update_stream_limit(ctl, id, new_limit) ==
    LET f == stream_window_mut(ctl, id) IN
    [f EXCEPT !.streams[id] = update_limit(f.streams[id], new_limit)]

\* FlowController::consume: the controller after the call and the result
controller_consume(ctl, id, amount) ==
    LET conn_available == available(ctl.connection) IN
    IF amount > conn_available
    THEN [fc |-> ctl, res |-> SendWindowExceeded(conn_available, amount)]
    ELSE LET f == stream_window_mut(ctl, id)
             stream_avail == available(f.streams[id])
         IN IF amount > stream_avail
            THEN [fc |-> f, res |-> SendWindowExceeded(stream_avail, amount)]
            ELSE [fc |-> [f EXCEPT !.connection = consume(f.connection, amount).w,
                                   !.streams[id] = consume(f.streams[id], amount).w],
                  res |-> FlowOk]

\* FlowController::connection_available
connection_available(ctl) == available(ctl.connection)

\* FlowController::stream_available
stream_available(ctl, id) ==
    IF id \in DOMAIN ctl.streams THEN available(ctl.streams[id])
    ELSE available(ctl.connection)

\* FlowController::retire_connection_consumed
retire_connection_consumed(ctl, amount) ==
    [ctl EXCEPT !.connection.consumed = saturating_sub(ctl.connection.consumed, amount)]

\* largest limit and amount handed to the flow-control calls, u64::MAX aside
MaxLimit == 2
LimitInputs == (0..MaxLimit) \cup {U64_MAX}
StreamIds == {1, 2}

\* ---- one FlowWindow -----------------------------------------------------
NoWindowCall == [op |-> "new", arg |-> 0, before |-> FlowWindowNew(0), res |-> FlowOk]

InitWindow ==
    /\ \E max_data \in 0..U64_MAX : win = FlowWindowNew(max_data)
    /\ winRes = NoWindowCall

\* window.update_limit(new_max)
UpdateLimit(new_max) ==
    /\ win' = update_limit(win, new_max)
    /\ winRes' = [op |-> "update_limit", arg |-> new_max, before |-> win, res |-> FlowOk]
    /\ UNCHANGED notWindow

\* window.consume(amount)
Consume(amount) ==
    LET r == consume(win, amount) IN
    /\ win' = r.w
    /\ winRes' = [op |-> "consume", arg |-> amount, before |-> win, res |-> r.res]
    /\ UNCHANGED notWindow

NextWindow ==
    \/ \E new_max \in 0..U64_MAX : UpdateLimit(new_max)
    \/ \E amount \in 0..U64_MAX : Consume(amount)

\* ---- one FlowController -------------------------------------------------
InitFlow ==
    /\ \E connection_limit \in LimitInputs : fc = FlowControllerNew(connection_limit)
    /\ fcTotals = [id \in StreamIds |-> 0]
    /\ fcRes = FlowOk

\* controller.update_connection_limit(new_limit)
UpdateConnectionLimit(new_limit) ==
    /\ fc' = update_connection_limit(fc, new_limit)
    /\ fcRes' = FlowOk
    /\ UNCHANGED fcTotals
    /\ UNCHANGED notFlow

\* controller.update_stream_limit(id, new_limit)
UpdateStreamLimit(id, new_limit) ==
    /\ fc' = update_stream_limit(fc, id, new_limit)
    /\ fcRes' = FlowOk
    /\ UNCHANGED fcTotals
    /\ UNCHANGED notFlow

\* controller.consume(id, amount)
ControllerConsume(id, amount) ==
    LET r == controller_consume(fc, id, amount) IN
    /\ fc' = r.fc
    /\ fcRes' = r.res
    /\ fcTotals' = IF r.res.err = "Ok"
                   THEN [fcTotals EXCEPT ![id] = fcTotals[id] + amount]
                   ELSE fcTotals
    /\ UNCHANGED notFlow

\* controller.retire_connection_consumed(amount)
RetireConnectionConsumed(amount) ==
    /\ fc' = retire_connection_consumed(fc, amount)
    /\ fcRes' = FlowOk
    /\ UNCHANGED fcTotals
    /\ UNCHANGED notFlow

NextFlow ==
    \/ \E new_limit \in LimitInputs : UpdateConnectionLimit(new_limit)
    \/ \E id \in StreamIds, new_limit \in LimitInputs : UpdateStreamLimit(id, new_limit)
    \/ \E id \in StreamIds, amount \in LimitInputs : ControllerConsume(id, amount)
    \/ \E amount \in LimitInputs : RetireConnectionConsumed(amount)

(***************************************************************************)
(* SendBuffer and StreamManager (stream.rs)                                *)
(***************************************************************************)
\* bytes queued on one stream in one run of the model
MaxQueued == 2
\* largest max_len handed to poll_send_chunk and longest queue_send data
MaxPoll == 2

SendBufferDefault ==
    [buffer |-> <<>>, fin_queued |-> FALSE, fin_sent |-> FALSE, next_offset |-> 0]

\* SendBuffer::queue: the buffer after the call and the error
queue(sb, data) ==
    IF sb.fin_queued THEN [sb |-> sb, err |-> "AlreadyFinished"]
    ELSE [sb |-> [sb EXCEPT !.buffer = sb.buffer \o data], err |-> "Ok"]

\* SendBuffer::queue_fin
queue_fin(sb) ==
    IF sb.fin_queued THEN [sb |-> sb, err |-> "AlreadyFinished"]
    ELSE [sb |-> [sb EXCEPT !.fin_queued = TRUE], err |-> "Ok"]

NoChunk == [some |-> FALSE, offset |-> 0, payload |-> <<>>, fin |-> FALSE]

\* a next_chunk that sets fin on every chunk returned once the FIN is queued
next_chunk_fin_early(sb, max_len) ==
    IF (sb.fin_sent \/ ~sb.fin_queued) /\ sb.buffer = <<>>
    THEN [sb |-> sb, chunk |-> NoChunk]
    ELSE LET take == MinNat(Len(sb.buffer), max_len)
             payload == SubSeq(sb.buffer, 1, take)
             rest == SubSeq(sb.buffer, take + 1, Len(sb.buffer))
             fin == sb.fin_queued /\ ~sb.fin_sent
         IN [sb |-> [sb EXCEPT !.buffer = rest,
                               !.fin_sent = sb.fin_sent \/ fin,
                               !.next_offset = saturating_add(sb.next_offset, take)],
             chunk |-> [some |-> TRUE, offset |-> sb.next_offset,
                        payload |-> payload, fin |-> fin]]

\* SendBuffer::next_chunk: the buffer after the call and the chunk, if any
next_chunk(sb, max_len) ==
    IF (sb.fin_sent \/ ~sb.fin_queued) /\ sb.buffer = <<>>
    THEN [sb |-> sb, chunk |-> NoChunk]
    ELSE LET take == MinNat(Len(sb.buffer), max_len)
             payload == SubSeq(sb.buffer, 1, take)
             rest == SubSeq(sb.buffer, take + 1, Len(sb.buffer))
             fin == rest = <<>> /\ sb.fin_queued /\ ~sb.fin_sent
         IN [sb |-> [sb EXCEPT !.buffer = rest,
                               !.fin_sent = sb.fin_sent \/ fin,
                               !.next_offset = saturating_add(sb.next_offset, take)],
             chunk |-> [some |-> TRUE, offset |-> sb.next_offset,
                        payload |-> payload, fin |-> fin]]

\* SendBuffer::is_drained
is_drained(sb) == sb.buffer = <<>> /\ (~sb.fin_queued \/ sb.fin_sent)

\* Stream::new
StreamNew == [send |-> SendBufferDefault, recv |-> RecvBufferDefault]

\* StreamManager::new
StreamManagerNew == [streams |-> <<>>, flow |-> FlowControllerNew(U64_MAX)]

\* StreamManager::set_connection_limit
set_connection_limit(m, limit) ==
    [m EXCEPT !.flow = update_connection_limit(m.flow, limit)]

\* StreamManager::set_stream_limit
set_stream_limit(m, id, limit) ==
    [m EXCEPT !.flow = update_stream_limit(m.flow, id, limit)]

\* StreamManager::stream_send_allowance
stream_send_allowance(m, id) == stream_available(m.flow, id)

\* StreamManager::get_or_create
get_or_create(m, id) ==
    IF id \in DOMAIN m.streams THEN m
    ELSE [m EXCEPT !.streams = MapPut(m.streams, id, StreamNew)]

\* StreamManager::queue_send
queue_send(m, id, data) ==
    IF id \notin DOMAIN m.streams THEN [m |-> m, err |-> "UnknownStream"]
    ELSE LET r == queue(m.streams[id].send, data) IN
         [m |-> [m EXCEPT !.streams[id].send = r.sb], err |-> r.err]

\* StreamManager::finish
finish(m, id) ==
    IF id \notin DOMAIN m.streams THEN [m |-> m, err |-> "UnknownStream"]
    ELSE LET r == queue_fin(m.streams[id].send) IN
         [m |-> [m EXCEPT !.streams[id].send = r.sb], err |-> r.err]

\* a poll_send_chunk that takes max_len bytes whatever the windows allow
poll_send_chunk_unlimited(m, id, max_len) ==
    IF max_len = 0 \/ id \notin DOMAIN m.streams
    THEN [m |-> m, chunk |-> NoChunk, res |-> FlowOk]
    ELSE LET n == next_chunk(m.streams[id].send, max_len)
             m1 == [m EXCEPT !.streams[id].send = n.sb]
             c == controller_consume(m.flow, id, Len(n.chunk.payload))
         IN IF n.chunk.some /\ n.chunk.payload # <<>>
            THEN [m |-> [m1 EXCEPT !.flow = c.fc],
                  chunk |-> IF c.res.err # "Ok" THEN NoChunk ELSE n.chunk, res |-> c.res]
            ELSE [m |-> m1, chunk |-> n.chunk, res |-> FlowOk]

\* StreamManager::poll_send_chunk: the manager after the call, the chunk
\* returned (if any) and the flow-control result
poll_send_chunk(m, id, max_len) ==
    LET allowance == stream_available(m.flow, id)
        limit == MinNat(MinNat(allowance, connection_available(m.flow)), max_len)
    IN
    IF allowance = 0 \/ limit = 0 \/ id \notin DOMAIN m.streams
    THEN [m |-> m, chunk |-> NoChunk, res |-> FlowOk]
    ELSE LET Consumed(n, m1, c) ==
                 IF c.res.err # "Ok"
                 THEN [m |-> [m1 EXCEPT !.flow = c.fc], chunk |-> NoChunk, res |-> c.res]
                 ELSE [m |-> [m1 EXCEPT !.flow = c.fc], chunk |-> n.chunk, res |-> c.res]
             Taken(n) ==
                 LET m1 == [m EXCEPT !.streams[id].send = n.sb] IN
                 IF n.chunk.some /\ n.chunk.payload # <<>>
                 THEN With(controller_consume(m.flow, id, Len(n.chunk.payload)),
                           LAMBDA c : Consumed(n, m1, c))
                 ELSE [m |-> m1, chunk |-> n.chunk, res |-> FlowOk]
         IN With(next_chunk(m.streams[id].send, limit), Taken)

NoLimits == [connection |-> None, streams |-> [id \in StreamIds |-> None]]
NoManagerCall == [op |-> "new", id |-> 0, err |-> "Ok", chunk |-> NoChunk]

\* the largest limit set so far
RaisedTo(limit, new) == IF limit.some THEN Some(MaxNat(limit.v, new)) ELSE Some(new)

InitMgr ==
    /\ mgr = StreamManagerNew
    /\ mgrSent = [id \in StreamIds |-> <<>>]
    /\ mgrLimits = NoLimits
    /\ mgrRes = NoManagerCall

\* manager.get_or_create(id)
GetOrCreate(id) ==
    /\ mgr' = get_or_create(mgr, id)
    /\ UNCHANGED <<mgrSent, mgrLimits, mgrRes>>
    /\ UNCHANGED notMgr

\* the payload bytes poll_send_chunk has returned over all streams
TotalSent == SumOver([id \in StreamIds |-> Len(mgrSent[id])], StreamIds)

\* manager.set_connection_limit(limit); the peer never advertises less than
\* it has already been sent
SetConnectionLimit(limit) ==
    /\ limit >= TotalSent
    /\ mgr' = set_connection_limit(mgr, limit)
    /\ mgrLimits' = [mgrLimits EXCEPT !.connection = RaisedTo(mgrLimits.connection, limit)]
    /\ UNCHANGED <<mgrSent, mgrRes>>
    /\ UNCHANGED notMgr

\* manager.set_stream_limit(id, limit); the peer never advertises less than
\* it has already been sent
SetStreamLimit(id, limit) ==
    /\ limit >= Len(mgrSent[id])
    /\ mgr' = set_stream_limit(mgr, id, limit)
    /\ mgrLimits' = [mgrLimits EXCEPT !.streams[id] = RaisedTo(mgrLimits.streams[id], limit)]
    /\ UNCHANGED <<mgrSent, mgrRes>>
    /\ UNCHANGED notMgr

\* the bytes the application has queued on stream id so far
Queued(id) ==
    IF id \in DOMAIN mgr.streams
    THEN mgr.streams[id].send.next_offset + Len(mgr.streams[id].send.buffer)
    ELSE 0

\* manager.queue_send(id, data) with len fresh bytes: byte k of the stream
\* has value k
QueueSend(id, len) ==
    LET r == queue_send(mgr, id, [i \in 1..len |-> Queued(id) + i]) IN
    /\ Queued(id) + len <= MaxQueued
    /\ mgr' = r.m
    /\ mgrRes' = [NoManagerCall EXCEPT !.op = "queue_send", !.id = id, !.err = r.err]
    /\ UNCHANGED <<mgrSent, mgrLimits>>
    /\ UNCHANGED notMgr

\* manager.finish(id)
Finish(id) ==
    LET r == finish(mgr, id) IN
    /\ mgr' = r.m
    /\ mgrRes' = [NoManagerCall EXCEPT !.op = "finish", !.id = id, !.err = r.err]
    /\ UNCHANGED <<mgrSent, mgrLimits>>
    /\ UNCHANGED notMgr

\* manager.poll_send_chunk(id, max_len)
PollSendChunk(id, max_len) ==
    LET r == poll_send_chunk(mgr, id, max_len) IN
    /\ mgr' = r.m
    /\ mgrSent' = [mgrSent EXCEPT ![id] = mgrSent[id] \o r.chunk.payload]
    /\ mgrRes' = [op |-> "poll_send_chunk", id |-> id, err |-> r.res.err,
                  chunk |-> r.chunk]
    /\ UNCHANGED mgrLimits
    /\ UNCHANGED notMgr

NextMgr ==
    \/ \E id \in StreamIds : GetOrCreate(id)
    \/ \E limit \in 1..MaxLimit : SetConnectionLimit(limit)
    \/ \E id \in StreamIds, limit \in 1..MaxLimit : SetStreamLimit(id, limit)
    \/ \E id \in StreamIds, len \in 0..MaxPoll : QueueSend(id, len)
    \/ \E id \in StreamIds : Finish(id)
    \/ \E id \in StreamIds, max_len \in 0..MaxPoll : PollSendChunk(id, max_len)

\* ---- the manager of a sender that uses up its credit ---------------------
\* the manager's windows are those of FlowController::new(u64::MAX), so the
\* credit runs out only after U64_MAX bytes: the sender queues that much
CreditLens == {3, 4}
CreditPolls == {0, 2, U64_MAX}

\* manager.queue_send(id, data) with len fresh bytes
CreditQueueSend(id, len) ==
    /\ Queued(id) + len <= U64_MAX
    /\ \E r \in {queue_send(mgr, id, [i \in 1..len |-> Queued(id) + i])} :
          /\ mgr' = r.m
          /\ mgrRes' = [NoManagerCall EXCEPT !.op = "queue_send", !.id = id, !.err = r.err]
    /\ UNCHANGED <<mgrSent, mgrLimits>>
    /\ UNCHANGED notMgr

NextCredit ==
    \/ \E id \in StreamIds : GetOrCreate(id)
    \/ \E id \in StreamIds : SetStreamLimit(id, U64_MAX)
    \/ \E id \in StreamIds, len \in CreditLens : CreditQueueSend(id, len)
    \/ \E id \in StreamIds : Finish(id)
    \/ \E id \in StreamIds, max_len \in CreditPolls : PollSendChunk(id, max_len)

(***************************************************************************)
(* The send side of a Stream (stream.rs)                                   *)
(***************************************************************************)
\* bytes queued on the stream in one run of the model
MaxStreamQueued == 3
\* calls of next_send_chunk in one run of the model
MaxStreamPolls == 4

\* Stream::queue_send
stream_queue_send(s, data) ==
    LET r == queue(s.send, data) IN [s |-> [s EXCEPT !.send = r.sb], err |-> r.err]

\* Stream::finish
stream_finish(s) ==
    LET r == queue_fin(s.send) IN [s |-> [s EXCEPT !.send = r.sb], err |-> r.err]

\* Stream::next_send_chunk
next_send_chunk(s, max_len) ==
    LET r == next_chunk(s.send, max_len) IN
    [s |-> [s EXCEPT !.send = r.sb], chunk |-> r.chunk]

\* Stream::is_send_drained
is_send_drained(s) == is_drained(s.send)

NoStreamLog == [queued |-> <<>>, chunks |-> <<>>, finished |-> FALSE, polls |-> 0]
NoStreamCall == [op |-> "new", err |-> "Ok", chunk |-> NoChunk, fin_before |-> FALSE]

NoIngestLog == [bytes |-> {}, fin |-> FALSE, read |-> <<>>, calls |-> 0]
NoIngestCall ==
    [op |-> "new", offset |-> 0, data |-> <<>>, fin |-> FALSE, err |-> "Ok",
     err_offset |-> 0, before |-> RecvBufferDefault]

InitSend ==
    /\ stream = StreamNew
    /\ streamLog = NoStreamLog
    /\ streamRes = NoStreamCall
    /\ ingestLog = NoIngestLog
    /\ ingestRes = NoIngestCall

\* a chunk was returned with fin set
FinReturned == \E k \in DOMAIN streamLog.chunks : streamLog.chunks[k].fin

\* stream.queue_send(data) with len fresh bytes: byte k of the stream has
\* value k; the bytes of a call that fails are not queued
StreamQueueSend(len) ==
    /\ Len(streamLog.queued) + len <= MaxStreamQueued
    /\ \E data \in {[i \in 1..len |-> Len(streamLog.queued) + i]} :
       \E r \in {stream_queue_send(stream, data)} :
          /\ stream' = r.s
          /\ streamLog' = [streamLog EXCEPT
                              !.queued = IF r.err = "Ok" THEN @ \o data ELSE @]
          /\ streamRes' = [NoStreamCall EXCEPT !.op = "queue_send", !.err = r.err,
                                               !.fin_before = FinReturned]
    /\ UNCHANGED <<ingestLog, ingestRes>>
    /\ UNCHANGED notStream

\* stream.finish()
StreamFinish ==
    /\ \E r \in {stream_finish(stream)} :
          /\ stream' = r.s
          /\ streamRes' = [NoStreamCall EXCEPT !.op = "finish", !.err = r.err,
                                               !.fin_before = FinReturned]
    /\ streamLog' = [streamLog EXCEPT !.finished = TRUE]
    /\ UNCHANGED <<ingestLog, ingestRes>>
    /\ UNCHANGED notStream

\* stream.next_send_chunk(max_len); the log keeps each chunk returned with
\* what held at its return: whether finish had been called and whether the
\* buffer was empty
NextSendChunk(max_len) ==
    /\ streamLog.polls < MaxStreamPolls
    /\ \E r \in {next_send_chunk(stream, max_len)} :
          /\ stream' = r.s
          /\ streamLog' = [streamLog EXCEPT
                 !.polls = @ + 1,
                 !.chunks = IF r.chunk.some
                            THEN Append(@, [offset |-> r.chunk.offset,
                                            payload |-> r.chunk.payload,
                                            fin |-> r.chunk.fin,
                                            finished |-> streamLog.finished,
                                            empty |-> r.s.send.buffer = <<>>])
                            ELSE @]
          /\ streamRes' = [op |-> "next_send_chunk", err |-> "Ok", chunk |-> r.chunk,
                           fin_before |-> FinReturned]
    /\ UNCHANGED <<ingestLog, ingestRes>>
    /\ UNCHANGED notStream

NextSend ==
    \/ \E len \in 0..MaxPoll : StreamQueueSend(len)
    \/ StreamFinish
    \/ \E max_len \in 0..MaxPoll : NextSendChunk(max_len)

(***************************************************************************)
(* The receive side of a Stream (stream.rs)                                *)
(***************************************************************************)
\* ingest calls in one run of arbitrary calls
MaxIngests == 3
\* the offsets an arbitrary ingest call may carry: the start of the stream and
\* the top of the u64 range
IngestOffsets == {0, 1, 2, U64_MAX - 1, U64_MAX}
\* the byte strings an arbitrary ingest call may carry
IngestData == {<<>>, <<1>>, <<2>>, <<1, 2>>, <<1, 1>>}

\* Stream::ingest
stream_ingest(s, offset, data, fin) ==
    LET r == ingest(s.recv, offset, data, fin) IN
    [s |-> [s EXCEPT !.recv = r.rb], res |-> r.res]

\* Stream::read
stream_read(s, max_len) ==
    LET r == read(s.recv, max_len) IN [s |-> [s EXCEPT !.recv = r.rb], out |-> r.out]

\* Stream::is_receive_finished
is_receive_finished(s) == received_fin(s.recv)

InitStreamRecv ==
    /\ stream = StreamNew
    /\ streamLog = NoStreamLog
    /\ streamRes = NoStreamCall
    /\ ingestLog = NoIngestLog
    /\ ingestRes = NoIngestCall

\* stream.ingest(offset, data, fin)
StreamIngest(offset, data, fin) ==
    /\ \E r \in {stream_ingest(stream, offset, data, fin)} :
          /\ stream' = r.s
          /\ ingestLog' = [ingestLog EXCEPT
                 !.calls = @ + 1,
                 !.bytes = IF r.res.err = "Ok"
                           THEN @ \cup {offset + i : i \in 0..(Len(data) - 1)}
                           ELSE @,
                 !.fin = @ \/ (r.res.err = "Ok" /\ fin)]
          /\ ingestRes' = [op |-> "ingest", offset |-> offset, data |-> data,
                           fin |-> fin, err |-> r.res.err,
                           err_offset |-> r.res.offset, before |-> stream.recv]
    /\ UNCHANGED <<streamLog, streamRes>>
    /\ UNCHANGED notStream

\* stream.read(max_len)
StreamRead(max_len) ==
    /\ \E r \in {stream_read(stream, max_len)} :
          /\ stream' = r.s
          /\ ingestLog' = [ingestLog EXCEPT !.read = @ \o r.out]
          /\ ingestRes' = [NoIngestCall EXCEPT !.op = "read", !.before = stream.recv]
    /\ UNCHANGED <<streamLog, streamRes>>
    /\ UNCHANGED notStream

\* the next chunk of a cut of S: len bytes of S at offset that no earlier
\* chunk carried; the FIN comes once, with the chunk that ends S or with an
\* empty chunk at the end of S
IngestChunk(offset, len, fin) ==
    /\ offset + len <= StreamLen
    /\ len > 0 \/ fin
    /\ {offset + i : i \in 0..(len - 1)} \cap ingestLog.bytes = {}
    /\ fin => ~ingestLog.fin /\ offset + len = StreamLen
    /\ StreamIngest(offset, SubSeq(StreamS, offset + 1, offset + len), fin)

\* any ingest call
IngestAny(offset, data, fin) ==
    /\ ingestLog.calls < MaxIngests
    /\ StreamIngest(offset, data, fin)

\* the chunks of a cut of S arrive in any order, reads in between
NextCut ==
    \/ \E offset \in 0..StreamLen, len \in 0..MaxChunk, fin \in BOOLEAN :
          IngestChunk(offset, len, fin)
    \/ \E max_len \in 0..StreamLen : StreamRead(max_len)

\* arbitrary ingest calls, reads in between
NextIngest ==
    \/ \E offset \in IngestOffsets, data \in IngestData, fin \in BOOLEAN :
          IngestAny(offset, data, fin)
    \/ \E max_len \in 0..MaxChunk : StreamRead(max_len)

(***************************************************************************)
(* The life of a stream in the StreamManager (stream.rs)                   *)
(***************************************************************************)
\* most bytes queue_send is handed per stream in this run
MaxLifeQueued == 1
\* the chunks of the peer's one-byte stream handed to ingest: (offset, data, fin)
LifeChunks == {<<0, <<1>>, FALSE>>, <<0, <<1>>, TRUE>>, <<1, <<>>, TRUE>>}

\* StreamManager::ingest
manager_ingest(m, id, offset, data, fin) ==
    LET Ingested(m1, r) == [m |-> [m1 EXCEPT !.streams[id] = r.s], err |-> r.res.err]
        Created(m1) == With(stream_ingest(m1.streams[id], offset, data, fin),
                            LAMBDA r : Ingested(m1, r))
    IN With(get_or_create(m, id), Created)

\* StreamManager::read
manager_read(m, id, max_len) ==
    IF id \notin DOMAIN m.streams THEN [m |-> m, err |-> "UnknownStream", out |-> <<>>]
    ELSE LET r == stream_read(m.streams[id], max_len) IN
         [m |-> [m EXCEPT !.streams[id] = r.s], err |-> "Ok", out |-> r.out]

\* StreamManager::is_send_drained
manager_is_send_drained(m, id) ==
    IF id \notin DOMAIN m.streams THEN [err |-> "UnknownStream", v |-> FALSE]
    ELSE [err |-> "Ok", v |-> is_send_drained(m.streams[id])]

\* StreamManager::is_receive_finished
manager_is_receive_finished(m, id) ==
    IF id \notin DOMAIN m.streams THEN [err |-> "UnknownStream", v |-> FALSE]
    ELSE [err |-> "Ok", v |-> is_receive_finished(m.streams[id])]

NoneAcked == [id \in StreamIds |-> [bytes |-> 0, fin |-> FALSE]]

\* what poll_send_chunk has returned of stream id: payload bytes, and the FIN
SentOf(id) ==
    IF id \in DOMAIN mgr.streams
    THEN [bytes |-> mgr.streams[id].send.next_offset, fin |-> mgr.streams[id].send.fin_sent]
    ELSE [bytes |-> 0, fin |-> FALSE]

\* manager.queue_send(id, data) with one fresh byte
LifeQueueSend(id) ==
    /\ Queued(id) < MaxLifeQueued
    /\ \E r \in {queue_send(mgr, id, <<Queued(id) + 1>>)} : mgr' = r.m
    /\ UNCHANGED <<mgrSent, mgrLimits, mgrRes>>
    /\ UNCHANGED notMgr

\* manager.finish(id)
LifeFinish(id) ==
    /\ \E r \in {finish(mgr, id)} : mgr' = r.m
    /\ UNCHANGED <<mgrSent, mgrLimits, mgrRes>>
    /\ UNCHANGED notMgr

\* manager.poll_send_chunk(id, max_len)
LifePollSendChunk(id, max_len) ==
    /\ \E r \in {poll_send_chunk(mgr, id, max_len)} :
          /\ mgr' = r.m
          /\ mgrSent' = [mgrSent EXCEPT ![id] = mgrSent[id] \o r.chunk.payload]
    /\ UNCHANGED <<mgrLimits, mgrRes>>
    /\ UNCHANGED notMgr

\* manager.ingest(id, offset, data, fin)
LifeIngest(id, chunk) ==
    /\ \E r \in {manager_ingest(mgr, id, chunk[1], chunk[2], chunk[3])} : mgr' = r.m
    /\ UNCHANGED <<mgrSent, mgrLimits, mgrRes>>
    /\ UNCHANGED notMgr

\* manager.read(id, max_len)
LifeRead(id, max_len) ==
    /\ \E r \in {manager_read(mgr, id, max_len)} : mgr' = r.m
    /\ UNCHANGED <<mgrSent, mgrLimits, mgrRes>>
    /\ UNCHANGED notMgr

\* the peer acknowledges the packets that carried what stream id has sent
LifeAcknowledge(id) ==
    /\ mgrAcked[id] # SentOf(id)
    /\ mgrAcked' = [mgrAcked EXCEPT ![id] = SentOf(id)]
    /\ UNCHANGED notLife

NextLife ==
    \/ \E id \in StreamIds : GetOrCreate(id)
    \/ \E id \in StreamIds : LifeQueueSend(id)
    \/ \E id \in StreamIds : LifeFinish(id)
    \/ \E id \in StreamIds : LifePollSendChunk(id, 1)
    \/ \E id \in StreamIds, chunk \in LifeChunks : LifeIngest(id, chunk)
    \/ \E id \in StreamIds : LifeRead(id, 1)
    \/ \E id \in StreamIds : LifeAcknowledge(id)

(***************************************************************************)
(* Scheduler (scheduler.rs)                                                *)
(*                                                                         *)
(* The BinaryHeap of stream entries is the set of its entries: pop takes   *)
(* a greatest entry of the set under Ord for StreamEntry.                  *)
(***************************************************************************)
\* calls of push_stream in one run of the model; the u64 sequence counter
\* does not wrap within them
MaxPushes == 4
\* the stream ids handed to push_stream
SchedIds == {1, 2}

PriorityClasses == {"Control", "Interactive", "Bulk"}

\* PriorityClass::weight
weight(priority) ==
    CASE priority = "Control" -> 100
      [] priority = "Interactive" -> 50
      [] priority = "Bulk" -> 10

\* an Ord for StreamEntry that orders equal weights by ascending sequence
entry_cmp_newest_first(a, b) ==
    IF a.weight < b.weight THEN "Less"
    ELSE IF a.weight > b.weight THEN "Greater"
    ELSE IF a.sequence < b.sequence THEN "Less"
    ELSE IF a.sequence > b.sequence THEN "Greater"
    ELSE "Equal"

\* Ord for StreamEntry: by weight, equal weights by sequence reversed
entry_cmp(a, b) ==
    IF a.weight < b.weight THEN "Less"
    ELSE IF a.weight > b.weight THEN "Greater"
    ELSE IF a.sequence < b.sequence THEN "Greater"
    ELSE IF a.sequence > b.sequence THEN "Less"
    ELSE "Equal"

\* the entries BinaryHeap::pop may return: those no entry is greater than
greatest(entries) ==
    {e \in entries : \A o \in entries : entry_cmp(e, o) # "Less"}

\* Scheduler::new
SchedulerNew == [streams |-> {}, datagrams |-> <<>>, sequence |-> 0]

\* Scheduler::push_stream
push_stream(sc, id, priority) ==
    LET sequence == (sc.sequence + 1) % (2 ^ U64Bits) IN
    [sc EXCEPT !.sequence = sequence,
               !.streams = @ \cup {[priority |-> priority, weight |-> weight(priority),
                                    sequence |-> sequence, id |-> id]}]

\* Scheduler::pop_stream, when the heap hands out entry: the scheduler after
\* the call and the pair returned
pop_stream(sc, entry) ==
    [sc |-> [sc EXCEPT !.streams = @ \ {entry}],
     out |-> [some |-> TRUE, id |-> entry.id, priority |-> entry.priority]]

\* Scheduler::has_streams
has_streams(sc) == sc.streams # {}

NoSchedLog == [pushes |-> 0, waiting |-> <<>>, popped |-> <<>>]
NoPair == [some |-> FALSE, id |-> 0, priority |-> "none"]
NoSchedCall == [op |-> "new", out |-> NoPair, due |-> NoPair]

InitSched ==
    /\ sched = SchedulerNew
    /\ schedLog = NoSchedLog
    /\ schedRes = NoSchedCall

\* the position in the waiting list of the entry that is due: the first one
\* of the heaviest class waiting
DuePosition(waiting) ==
    CHOOSE k \in DOMAIN waiting :
        /\ \A j \in DOMAIN waiting : weight(waiting[j].priority) <= weight(waiting[k].priority)
        /\ \A j \in 1..(k - 1) : weight(waiting[j].priority) < weight(waiting[k].priority)

\* the sequence s without its k-th element
Without(s, k) == SubSeq(s, 1, k - 1) \o SubSeq(s, k + 1, Len(s))

\* scheduler.push_stream(id, priority)
PushStream(id, priority) ==
    /\ schedLog.pushes < MaxPushes
    /\ sched' = push_stream(sched, id, priority)
    /\ schedLog' = [schedLog EXCEPT
                       !.pushes = @ + 1,
                       !.waiting = Append(@, [some |-> TRUE, id |-> id,
                                              priority |-> priority])]
    /\ schedRes' = [NoSchedCall EXCEPT !.op = "push_stream"]
    /\ UNCHANGED notSched

\* scheduler.pop_stream()
PopStream ==
    /\ IF has_streams(sched)
       THEN \E entry \in greatest(sched.streams) :
              \E r \in {pop_stream(sched, entry)} :
                 /\ sched' = r.sc
                 /\ schedLog' = [schedLog EXCEPT
                        !.popped = Append(@, entry.sequence),
                        !.waiting = IF @ = <<>> THEN @ ELSE Without(@, DuePosition(@))]
                 /\ schedRes' = [op |-> "pop_stream", out |-> r.out,
                                 due |-> IF schedLog.waiting = <<>> THEN NoPair
                                         ELSE schedLog.waiting[DuePosition(schedLog.waiting)]]
       ELSE /\ schedRes' = [op |-> "pop_stream", out |-> NoPair,
                            due |-> IF schedLog.waiting = <<>> THEN NoPair
                                    ELSE schedLog.waiting[DuePosition(schedLog.waiting)]]
            /\ UNCHANGED <<sched, schedLog>>
    /\ UNCHANGED notSched

NextSched ==
    \/ \E id \in SchedIds, priority \in PriorityClasses : PushStream(id, priority)
    \/ PopStream

(***************************************************************************)
(* LossManager (loss.rs)                                                   *)
(*                                                                         *)
(* A SystemTime is a number of nanoseconds since the start of the run, a   *)
(* Duration a number of nanoseconds.                                       *)
(***************************************************************************)
\* packets handed to on_packet_sent in one run of the model
MaxSent == 3
\* the clock runs from 0 to MaxTime ticks
MaxTime == 2
\* Duration::from_micros(1), in nanoseconds
MICROSECOND == 1000
\* the clock ticks in microseconds
Tick == MICROSECOND

\* the LossConfig of the model's manager: packets two apart, 9/8 of the RTT,
\* an initial RTT of one tick, ACK delays capped at one tick
LossConfig ==
    [packet_threshold |-> 2,
     time_threshold_factor_numerator |-> 9,
     time_threshold_factor_denominator |-> 8,
     initial_rtt |-> Tick,
     max_ack_delay |-> Tick]

\* SentPacketInfo::new
SentPacketInfo(packet_number, time_sent, size, ack_eliciting) ==
    [packet_number |-> packet_number, time_sent |-> time_sent,
     size |-> size, ack_eliciting |-> ack_eliciting]

\* LossManager::new
LossManagerNew(config) ==
    [config |-> config, outstanding |-> <<>>, largest_acked |-> None,
     latest_rtt |-> None, smoothed_rtt |-> None, rtt_var |-> None,
     min_rtt |-> None, loss_time |-> None]

\* AckRange::new(start, end) and AckFrame::new(largest, ack_delay, ranges)
AckRange(start, end) == [start |-> start, end |-> end]
AckFrame(largest, ack_delay_micros, ranges) ==
    [largest |-> largest, ack_delay_micros |-> ack_delay_micros, ranges |-> ranges]

\* ack_contains
ack_contains(frame, packet_number) ==
    \E i \in DOMAIN frame.ranges :
        packet_number >= frame.ranges[i].start /\ packet_number <= frame.ranges[i].end

\* abs_duration_diff
abs_duration_diff(a, b) == IF a < b THEN b - a ELSE a - b

\* scale_duration
scale_duration(base, numerator, denominator) ==
    IF denominator = 0 THEN base
    ELSE MaxNat((base * numerator) \div denominator, MICROSECOND)

\* SystemTime::duration_since(earlier).unwrap_or_default()
duration_since(now, earlier) == IF now >= earlier THEN now - earlier ELSE 0

\* LossManager::time_threshold
time_threshold(l) ==
    LET base == IF l.latest_rtt.some THEN l.latest_rtt.v
                ELSE IF l.smoothed_rtt.some THEN l.smoothed_rtt.v
                ELSE l.config.initial_rtt
    IN Some(scale_duration(base, l.config.time_threshold_factor_numerator,
                           l.config.time_threshold_factor_denominator))

\* LossManager::update_loss_time
update_loss_time(l, now) ==
    IF ~l.loss_time.some /\ time_threshold(l).some
    THEN [l EXCEPT !.loss_time = Some(now + time_threshold(l).v)]
    ELSE l

\* LossManager::recalculate_loss_time
recalculate_loss_time(l, now) ==
    LET delay == time_threshold(l)
        candidates == {l.outstanding[i].time_sent + delay.v :
                          i \in {j \in DOMAIN l.outstanding : l.outstanding[j].ack_eliciting}}
    IN IF delay.some /\ candidates # {}
       THEN [l EXCEPT !.loss_time = Some(SetMin(candidates))]
       ELSE IF delay.some THEN [l EXCEPT !.loss_time = Some(now + delay.v)]
       ELSE [l EXCEPT !.loss_time = None]

\* update_rtt_estimates that takes every sample as the smoothed RTT
update_rtt_estimates_unweighted(l, latest) ==
    [l EXCEPT !.latest_rtt = Some(latest),
              !.min_rtt = Some(IF l.min_rtt.some THEN MinNat(l.min_rtt.v, latest) ELSE latest),
              !.smoothed_rtt = Some(latest), !.rtt_var = Some(latest \div 2)]

\* LossManager::update_rtt_estimates
update_rtt_estimates(l, latest) ==
    LET min_rtt == IF l.min_rtt.some THEN MinNat(l.min_rtt.v, latest) ELSE latest IN
    IF ~l.smoothed_rtt.some \/ ~l.rtt_var.some
    THEN [l EXCEPT !.latest_rtt = Some(latest), !.min_rtt = Some(min_rtt),
                   !.smoothed_rtt = Some(latest), !.rtt_var = Some(latest \div 2)]
    ELSE LET abs_err == abs_duration_diff(l.smoothed_rtt.v, latest)
             new_var == (3 * l.rtt_var.v + abs_err) \div 4
             new_srtt == (7 * l.smoothed_rtt.v + latest) \div 8
         IN [l EXCEPT !.latest_rtt = Some(latest), !.min_rtt = Some(min_rtt),
                      !.rtt_var = Some(MaxNat(new_var, MICROSECOND)),
                      !.smoothed_rtt = Some(MaxNat(new_srtt, MICROSECOND))]

\* the loss test of detect_losses for one outstanding entry
declared_lost(l, info, largest_acked, now) ==
    \/ /\ largest_acked >= info.packet_number
       /\ largest_acked - info.packet_number >= l.config.packet_threshold
    \/ /\ time_threshold(l).some
       /\ duration_since(now, info.time_sent) >= time_threshold(l).v

\* detect_losses that reports the lost entries and keeps them outstanding
detect_losses_keep(l, largest_acked, now) ==
    LET Lost(info) == declared_lost(l, info, largest_acked, now) IN
    [l |-> l, lost |-> SelectSeq(l.outstanding, Lost)]

\* LossManager::detect_losses: the manager after the call and the lost entries
detect_losses(l, largest_acked, now) ==
    LET Lost(info) == declared_lost(l, info, largest_acked, now)
        Kept(info) == ~declared_lost(l, info, largest_acked, now)
    IN [l |-> [l EXCEPT !.outstanding = SelectSeq(l.outstanding, Kept)],
        lost |-> SelectSeq(l.outstanding, Lost)]

\* LossManager::on_packet_sent
on_packet_sent(l, packet_number, time_sent, size, ack_eliciting) ==
    LET info == SentPacketInfo(packet_number, time_sent, size, ack_eliciting)
        pushed == [l EXCEPT !.outstanding = Append(l.outstanding, info)]
    IN IF ack_eliciting THEN update_loss_time(pushed, time_sent) ELSE pushed

\* the entry on_ack_frame takes as acknowledged_largest: the first of the
\* acknowledged entries that carries their greatest packet number
AcknowledgedLargest(acked) ==
    acked[CHOOSE i \in DOMAIN acked :
             /\ \A j \in DOMAIN acked : acked[j].packet_number <= acked[i].packet_number
             /\ \A j \in 1..(i - 1) : acked[j].packet_number < acked[i].packet_number]

\* LossManager::on_ack_frame: the manager after the call and the AckOutcome
on_ack_frame(l, frame, now) ==
    LET Acked(info) == ack_contains(frame, info.packet_number)
        Retained(info) == ~ack_contains(frame, info.packet_number)
        acknowledged == SelectSeq(l.outstanding, Acked)
        l1 == [l EXCEPT !.outstanding = SelectSeq(l.outstanding, Retained)]
        largest == AcknowledgedLargest(acknowledged)
        ack_delay == MinNat(frame.ack_delay_micros * MICROSECOND, l.config.max_ack_delay)
        elapsed == now - largest.time_sent
        latest == IF elapsed > ack_delay THEN elapsed - ack_delay ELSE elapsed
        sampled == acknowledged # <<>> /\ now >= largest.time_sent
        l2 == IF acknowledged = <<>> THEN l1
              ELSE LET l1a == [l1 EXCEPT !.largest_acked = Some(largest.packet_number)] IN
                   IF now >= largest.time_sent THEN update_rtt_estimates(l1a, latest)
                   ELSE l1a
        d == detect_losses(l2, frame.largest, now)
    IN [l |-> recalculate_loss_time(d.l, now),
        outcome |-> [acknowledged |-> acknowledged, lost |-> d.lost,
                     rtt_sample |-> IF sampled THEN Some(latest) ELSE None]]

\* on_loss_timeout that does not look at ack_eliciting
on_loss_timeout_any_record(l, now) ==
    IF ~(l.loss_time.some /\ l.loss_time.v <= now) THEN [l |-> l, lost |-> <<>>]
    ELSE LET delay == time_threshold(l).v
             Lost(info) == duration_since(now, info.time_sent) >= delay
             Kept(info) == ~Lost(info)
         IN [l |-> recalculate_loss_time(
                       [l EXCEPT !.outstanding = SelectSeq(l.outstanding, Kept)], now),
             lost |-> SelectSeq(l.outstanding, Lost)]

\* LossManager::on_loss_timeout: the manager after the call and the lost entries
on_loss_timeout(l, now) ==
    IF ~(l.loss_time.some /\ l.loss_time.v <= now) THEN [l |-> l, lost |-> <<>>]
    ELSE IF ~time_threshold(l).some THEN [l |-> l, lost |-> <<>>]
    ELSE LET delay == time_threshold(l).v
             Lost(info) == info.ack_eliciting /\ duration_since(now, info.time_sent) >= delay
             Kept(info) == ~Lost(info)
         IN [l |-> recalculate_loss_time(
                       [l EXCEPT !.outstanding = SelectSeq(l.outstanding, Kept)], now),
             lost |-> SelectSeq(l.outstanding, Lost)]

\* ---- the manager driven by a sender with a clock ------------------------
PacketNumbers == 0..(MaxSent - 1)
PacketSizes == {1200}
AckDelays == {5}

\* the frames AckFrame::new accepts: one or two ranges, sorted by end
\* descending, the first ending at largest
AckRanges == {r \in [start : PacketNumbers, end : PacketNumbers] : r.start <= r.end}
AckFrames ==
    {AckFrame(r.end, d, <<r>>) : r \in AckRanges, d \in AckDelays} \cup
    {AckFrame(p[1].end, d, <<p[1], p[2]>>) :
        p \in {x \in AckRanges \X AckRanges : x[2].end < x[1].start}, d \in AckDelays}

\* the times a call may carry: the clock, or later
Times == {clock + k * Tick : k \in 0..1} \cap (0..(MaxTime * Tick))

\* the entries of seq, each with the way it was reported
Tagged(seq, via) == {[info |-> seq[i], via |-> via] : i \in DOMAIN seq}

InitLoss ==
    /\ loss = LossManagerNew(LossConfig)
    /\ clock = 0
    /\ sentLog = <<>>
    /\ ackedLog = {}
    /\ lostLog = {}
    /\ reports = 0

\* manager.on_packet_sent(packet_number, now, size, ack_eliciting) for a
\* packet number not used before
OnPacketSent(packet_number, now, size, ack_eliciting) ==
    /\ Len(sentLog) < MaxSent
    /\ \A i \in DOMAIN sentLog : sentLog[i].packet_number # packet_number
    /\ loss' = on_packet_sent(loss, packet_number, now, size, ack_eliciting)
    /\ clock' = now
    /\ sentLog' = Append(sentLog, SentPacketInfo(packet_number, now, size, ack_eliciting))
    /\ UNCHANGED <<ackedLog, lostLog, reports>>
    /\ UNCHANGED notLoss

\* manager.on_ack_frame(frame, now)
OnAckFrame(frame, now) ==
    LET r == on_ack_frame(loss, frame, now) IN
    /\ loss' = r.l
    /\ clock' = now
    /\ ackedLog' = ackedLog \cup Tagged(r.outcome.acknowledged, "ack")
    /\ lostLog' = lostLog \cup Tagged(r.outcome.lost, "ack")
    /\ reports' = reports + Len(r.outcome.acknowledged) + Len(r.outcome.lost)
    /\ UNCHANGED sentLog
    /\ UNCHANGED notLoss

\* manager.on_loss_timeout(now)
OnLossTimeout(now) ==
    LET r == on_loss_timeout(loss, now) IN
    /\ loss' = r.l
    /\ clock' = now
    /\ lostLog' = lostLog \cup Tagged(r.lost, "timeout")
    /\ reports' = reports + Len(r.lost)
    /\ UNCHANGED <<sentLog, ackedLog>>
    /\ UNCHANGED notLoss

\* the frames of a peer that acknowledges one run of packets, at once or
\* after a delay above max_ack_delay
RttFrames == {AckFrame(r.end, d, <<r>>) : r \in AckRanges, d \in {0, 5}}

\* the manager of a sender whose packets are all ack-eliciting and whose
\* loss timer never fires
NextRtt ==
    \/ \E packet_number \in PacketNumbers, now \in Times, size \in PacketSizes :
          OnPacketSent(packet_number, now, size, TRUE)
    \/ \E frame \in RttFrames, now \in Times : OnAckFrame(frame, now)

NextLoss ==
    \/ \E packet_number \in PacketNumbers, now \in Times, size \in PacketSizes,
          ack_eliciting \in BOOLEAN :
          OnPacketSent(packet_number, now, size, ack_eliciting)
    \/ \E frame \in AckFrames, now \in Times : OnAckFrame(frame, now)
    \/ \E now \in Times : OnLossTimeout(now)

(***************************************************************************)
(* ACK bookkeeping of the receiver (ack.rs)                                *)
(*                                                                         *)
(* ReceiveHistory keeps the packet numbers seen from the peer as a list of *)
(* inclusive ranges, highest first, and builds ACK frames from it.         *)
(***************************************************************************)
\* DEFAULT_MAX_ACK_RANGES
DEFAULT_MAX_ACK_RANGES == 32
\* largest small capacity handed to ReceiveHistory::new
MaxRanges == 2
\* packet numbers 0..MaxRecorded are recorded, and the top two of the u64 range
MaxRecorded == 3

\* u64::checked_add(1)
checked_add_one(n) == IF n = U64_MAX THEN None ELSE Some(n + 1)

\* Vec::remove(idx) and Vec::insert(idx, x), positions counted from 1
RemoveAt(seq, idx) == SubSeq(seq, 1, idx - 1) \o SubSeq(seq, idx + 1, Len(seq))
InsertAt(seq, idx, x) == SubSeq(seq, 1, idx - 1) \o <<x>> \o SubSeq(seq, idx, Len(seq))

\* AckRange::overlaps_or_adjacent
overlaps_or_adjacent(a, b) ==
    ~(saturating_add(a.end, 1) < b.start \/ saturating_add(b.end, 1) < a.start)

\* a merge that keeps the higher of the two starts
merge_narrow(a, b) == AckRange(MaxNat(a.start, b.start), MaxNat(a.end, b.end))

\* AckRange::merge
merge(a, b) == AckRange(MinNat(a.start, b.start), MaxNat(a.end, b.end))

\* ranges.sort_by(|a, b| b.end.cmp(&a.end)): stable, descending by end
RECURSIVE sort_by_end_desc(_)
sort_by_end_desc(ranges) ==
    IF ranges = <<>> THEN <<>>
    ELSE LET rest == sort_by_end_desc(SubSeq(ranges, 1, Len(ranges) - 1))
             last == ranges[Len(ranges)]
             Before(r) == r.end >= last.end
             After(r) == r.end < last.end
         IN SelectSeq(rest, Before) \o <<last>> \o SelectSeq(rest, After)

\* AckFrame::new: the frame, or the error it returns
AckFrameNew(largest, ack_delay, ranges) ==
    LET sorted == sort_by_end_desc(ranges) IN
    IF ranges = <<>> THEN [err |-> "EmptyHistory", frame |-> AckFrame(0, 0, <<>>)]
    ELSE IF sorted[1].end # largest
    THEN [err |-> "InvalidRange", frame |-> AckFrame(0, 0, <<>>)]
    ELSE [err |-> "Ok",
          frame |-> AckFrame(largest, MinNat(ack_delay \div MICROSECOND, U64_MAX), sorted)]

\* ReceiveHistory::new
ReceiveHistoryNew(max_ranges, ack_delay) ==
    [ranges |-> <<>>, max_ranges |-> MaxNat(max_ranges, 1), ack_delay |-> ack_delay,
     last_ack_time |-> None, ack_request_time |-> None]

\* ReceiveHistory::compress_around, idx counted from 1
RECURSIVE compress_around(_, _)
compress_around(ranges, idx) ==
    IF idx > 1 /\ overlaps_or_adjacent(ranges[idx], ranges[idx - 1])
    THEN compress_around(
             RemoveAt([ranges EXCEPT ![idx - 1] = merge(ranges[idx], ranges[idx - 1])], idx),
             idx - 1)
    ELSE IF idx + 1 <= Len(ranges) /\ overlaps_or_adjacent(ranges[idx], ranges[idx + 1])
    THEN compress_around(
             RemoveAt([ranges EXCEPT ![idx] = merge(ranges[idx], ranges[idx + 1])], idx + 1),
             idx)
    ELSE ranges

\* truncate_to_capacity that keeps every range
truncate_to_capacity_none(h) == h

\* ReceiveHistory::truncate_to_capacity
truncate_to_capacity(h) ==
    IF Len(h.ranges) <= h.max_ranges THEN h
    ELSE [h EXCEPT !.ranges = SubSeq(h.ranges, 1, h.max_ranges)]

\* the loop of insert_packet from position idx on: whether the number was
\* already present, and the ranges after the insertion
RECURSIVE insert_scan(_, _, _)
insert_scan(ranges, packet_number, idx) ==
    IF idx > Len(ranges)
    THEN [present |-> FALSE,
          ranges |-> Append(ranges, AckRange(packet_number, packet_number))]
    ELSE LET range == ranges[idx] IN
         IF packet_number >= range.start /\ packet_number <= range.end
         THEN [present |-> TRUE, ranges |-> ranges]
         ELSE IF checked_add_one(packet_number) = Some(range.start)
         THEN [present |-> FALSE,
               ranges |-> compress_around(
                   [ranges EXCEPT ![idx] = AckRange(packet_number, range.end)], idx)]
         ELSE IF checked_add_one(range.end) = Some(packet_number)
         THEN [present |-> FALSE,
               ranges |-> compress_around(
                   [ranges EXCEPT ![idx] = AckRange(range.start, packet_number)], idx)]
         ELSE IF packet_number > range.end
         THEN [present |-> FALSE,
               ranges |-> InsertAt(ranges, idx, AckRange(packet_number, packet_number))]
         ELSE insert_scan(ranges, packet_number, idx + 1)

\* ReceiveHistory::insert_packet
insert_packet(h, packet_number) ==
    LET scan == insert_scan(h.ranges, packet_number, 1) IN
    IF scan.present THEN h
    ELSE truncate_to_capacity([h EXCEPT !.ranges = scan.ranges])

\* ReceiveHistory::should_ack_immediately
should_ack_immediately(h, now) ==
    /\ h.ack_request_time.some
    /\ now >= h.ack_request_time.v
    /\ now - h.ack_request_time.v >= h.ack_delay

\* a record that restarts the pending-ack timer at every ack-eliciting packet
record_restarting_timer(h, packet_number, ack_eliciting, now) ==
    LET h1 == insert_packet(h, packet_number)
        h2 == IF ack_eliciting THEN [h1 EXCEPT !.ack_request_time = Some(now)] ELSE h1
    IN [h |-> h2, immediate |-> should_ack_immediately(h2, now)]

\* ReceiveHistory::record: the history after the call and the returned flag
record(h, packet_number, ack_eliciting, now) ==
    LET h1 == insert_packet(h, packet_number)
        h2 == IF ack_eliciting /\ ~h1.ack_request_time.some
              THEN [h1 EXCEPT !.ack_request_time = Some(now)]
              ELSE h1
    IN [h |-> h2, immediate |-> should_ack_immediately(h2, now)]

\* ReceiveHistory::build_frame: the history after the call and Ok(Some(frame)),
\* Ok(None) or the error of AckFrame::new
build_frame(h, now) ==
    IF h.ranges = <<>> THEN [h |-> h, err |-> "Ok", frame |-> None]
    ELSE LET largest == h.ranges[1].end
             ack_delay == IF h.last_ack_time.some
                          THEN duration_since(now, h.last_ack_time.v)
                          ELSE 0
             made == AckFrameNew(largest, ack_delay, h.ranges)
         IN IF made.err # "Ok" THEN [h |-> h, err |-> made.err, frame |-> None]
            ELSE [h |-> [h EXCEPT !.last_ack_time = Some(now), !.ack_request_time = None],
                  err |-> "Ok", frame |-> Some(made.frame)]

\* ---- a history driven by a receiver ------------------------------------
HistNumbers == (0..MaxRecorded) \cup {U64_MAX - 1, U64_MAX}
HistCapacities == (0..MaxRanges) \cup {DEFAULT_MAX_ACK_RANGES}
HistDelays == {0, Tick}
HistTimes == {0, Tick}

\* the maximal runs of consecutive numbers of a set, as ranges, highest first
RECURSIVE RunsOf(_)
RunsOf(S) ==
    IF S = {} THEN <<>>
    ELSE LET top == SetMax(S)
             low == SetMin({s \in S : \A k \in s..top : k \in S})
         IN <<AckRange(low, top)>> \o RunsOf({s \in S : s < low})

\* the packet numbers a list of ranges covers
Covered(ranges) ==
    UNION {ranges[i].start..ranges[i].end : i \in DOMAIN ranges}

NoHistCall == [op |-> "none", immediate |-> FALSE, err |-> "Ok", frame |-> None]

InitHist ==
    /\ \E max_ranges \in HistCapacities, ack_delay \in HistDelays :
           hist = ReceiveHistoryNew(max_ranges, ack_delay)
    /\ recorded = {}
    /\ exceeded = FALSE
    /\ histRes = NoHistCall

Record(packet_number, ack_eliciting, now) ==
    LET r == record(hist, packet_number, ack_eliciting, now) IN
    /\ hist' = r.h
    /\ recorded' = recorded \cup {packet_number}
    /\ exceeded' = (exceeded \/ Len(RunsOf(recorded')) > hist.max_ranges)
    /\ histRes' = [op |-> "record", immediate |-> r.immediate, err |-> "Ok",
                   frame |-> None]
    /\ UNCHANGED notHist

BuildFrame(now) ==
    LET r == build_frame(hist, now) IN
    /\ hist' = r.h
    /\ histRes' = [op |-> "build_frame", immediate |-> FALSE, err |-> r.err,
                   frame |-> r.frame]
    /\ UNCHANGED <<recorded, exceeded>>
    /\ UNCHANGED notHist

NextHist ==
    \/ \E packet_number \in HistNumbers, ack_eliciting \in BOOLEAN, now \in HistTimes :
           Record(packet_number, ack_eliciting, now)
    \/ \E now \in HistTimes : BuildFrame(now)

(***************************************************************************)
(* Session tickets (session.rs)                                            *)
(*                                                                         *)
(* SystemTime::now() is the variable ticketClock, advanced by the          *)
(* environment.                                                            *)
(***************************************************************************)
\* TICKET_ID_LEN and TICKET_SECRET_LEN
TICKET_ID_LEN == 16
TICKET_SECRET_LEN == 32
\* tickets issued in one run of the model
MaxIssued == 3
\* the clock of the ticket store runs from 0 to MaxTicketTime ticks
MaxTicketTime == 2

\* u8::rotate_left
rotate_left(byte, n) ==
    LET shifted == byte * (2 ^ (n % 8)) IN (shifted % 256) + (shifted \div 256)

\* SessionTicket::new, with issued_at = SystemTime::now()
SessionTicketNew(id, secret, ttl, now) ==
    [id |-> id, secret |-> secret, issued_at |-> now, expires_at |-> now + ttl]

\* SessionTicket::is_valid
is_valid(ticket, now) == ticket.expires_at > now

\* SessionTicketManager::new
SessionTicketManagerNew(ttl, max_entries) ==
    [ttl |-> ttl, max_entries |-> MaxNat(max_entries, 1), counter |-> 0,
     tickets |-> <<>>, order |-> <<>>]

\* SessionTicketManager::derive_material: (id, secret) from the seed and the
\* manager's current counter
derive_material(m, seed) ==
    LET id == [i \in 1..TICKET_ID_LEN |->
                  Xor(seed[((i - 1) % Len(seed)) + 1],
                      rotate_left(LeByte(m.counter, (i - 1) % 8), (i - 1) % 8))]
        secret == [i \in 1..TICKET_SECRET_LEN |->
                      rotate_left((seed[((i - 1) % Len(seed)) + 1]
                                   + id[((i - 1) % TICKET_ID_LEN) + 1]) % 256,
                                  ((i - 1) % 8) + 1)]
    IN [id |-> id, secret |-> secret]

\* SessionTicketManager::store
store(m, ticket) ==
    LET m1 == IF Len(m.order) >= m.max_entries /\ m.order # <<>>
              THEN [m EXCEPT !.order = Tail(m.order),
                             !.tickets = MapRemove(m.tickets, Head(m.order))]
              ELSE m
    IN [m1 EXCEPT !.order = Append(m1.order, ticket.id),
                  !.tickets = MapPut(m1.tickets, ticket.id, ticket)]

\* SessionTicketManager::prune_expired
RECURSIVE prune_expired(_, _)
prune_expired(m, now) ==
    IF m.order = <<>> THEN m
    ELSE LET id == Head(m.order) IN
         IF id \in DOMAIN m.tickets /\ is_valid(m.tickets[id], now) THEN m
         ELSE prune_expired([m EXCEPT !.order = Tail(m.order),
                                      !.tickets = MapRemove(m.tickets, id)], now)

\* SessionTicketManager::issue: the manager after the call and the ticket
issue(m, seed, now) ==
    LET m1 == prune_expired(m, now)
        m2 == [m1 EXCEPT !.counter = (m1.counter + 1) % (U64_MAX + 1)]
        material == derive_material(m2, seed)
        ticket == SessionTicketNew(material.id, material.secret, m2.ttl, now)
    IN [m |-> store(m2, ticket), ticket |-> ticket]

NoTicket == SessionTicketNew(<<>>, <<>>, 0, 0)

\* SessionTicketManager::resume: the manager after the call and the Option
resume(m, id, seed, now) ==
    IF Len(id) # TICKET_ID_LEN THEN [m |-> m, some |-> FALSE, ticket |-> NoTicket]
    ELSE LET m1 == prune_expired(m, now) IN
         IF /\ id \in DOMAIN m1.tickets
            /\ is_valid(m1.tickets[id], now)
            /\ m1.tickets[id].secret = derive_material(m1, seed).secret
         THEN [m |-> m1, some |-> TRUE, ticket |-> m1.tickets[id]]
         ELSE [m |-> m1, some |-> FALSE, ticket |-> NoTicket]

\* ---- a ticket store driven by a responder ------------------------------
Seeds == {<<170>>, <<1, 2>>}
TicketTtls == {Tick, 2 * Tick}
TicketCapacities == {0, 2}

NoTicketCall == [op |-> "none", entry |-> 0, seed |-> <<>>, now |-> 0,
                 stored |-> FALSE, some |-> FALSE, ticket |-> NoTicket]

InitTicket ==
    /\ \E ttl \in TicketTtls, max_entries \in TicketCapacities :
           ticketMgr = SessionTicketManagerNew(ttl, max_entries)
    /\ ticketClock = 0
    /\ issuedLog = <<>>
    /\ ticketRes = NoTicketCall

Issue(seed) ==
    LET r == issue(ticketMgr, seed, ticketClock) IN
    /\ Len(issuedLog) < MaxIssued
    /\ ticketMgr' = r.m
    /\ issuedLog' = Append(issuedLog, [ticket |-> r.ticket, seed |-> seed,
                                       counter |-> r.m.counter])
    /\ ticketRes' = [op |-> "issue", entry |-> Len(issuedLog) + 1, seed |-> seed,
                     now |-> ticketClock, stored |-> FALSE, some |-> TRUE,
                     ticket |-> r.ticket]
    /\ UNCHANGED ticketClock
    /\ UNCHANGED notTicket

\* resume with the id of the entry-th issued ticket, whole or cut short
Resume(entry, seed, whole) ==
    LET issued == issuedLog[entry].ticket
        id == IF whole THEN issued.id ELSE SubSeq(issued.id, 1, TICKET_ID_LEN - 1)
        r == resume(ticketMgr, id, seed, ticketClock)
    IN /\ entry \in DOMAIN issuedLog
       /\ ticketMgr' = r.m
       /\ ticketRes' = [op |-> IF whole THEN "resume" ELSE "resume_short",
                        entry |-> entry, seed |-> seed, now |-> ticketClock,
                        stored |-> /\ issued.id \in DOMAIN ticketMgr.tickets
                                   /\ ticketMgr.tickets[issued.id] = issued,
                        some |-> r.some, ticket |-> r.ticket]
       /\ UNCHANGED <<ticketClock, issuedLog>>
       /\ UNCHANGED notTicket

\* the system clock moves on
TicketTime ==
    /\ ticketClock < MaxTicketTime * Tick
    /\ ticketClock' = ticketClock + Tick
    /\ UNCHANGED <<ticketMgr, issuedLog, ticketRes>>
    /\ UNCHANGED notTicket

NextTicket ==
    \/ \E seed \in Seeds : Issue(seed)
    \/ \E entry \in 1..MaxIssued, seed \in Seeds, whole \in BOOLEAN :
           Resume(entry, seed, whole)
    \/ TicketTime

(***************************************************************************)
(* Anti-amplification guard (anti_amplification.rs)                        *)
(*                                                                         *)
(* usize has the width of u64: U64_MAX stands for usize::MAX.              *)
(***************************************************************************)
\* calls of on_receive and try_consume in one run of the model
MaxAmpCalls == 4

\* usize::saturating_add on byte counts that stay far below usize::MAX
saturating_add_usize(a, b) == a + b

\* usize::saturating_mul
saturating_mul(a, b) == MinNat(a * b, U64_MAX)

\* AmplificationConfig
AmplificationConfig(factor, initial_allowance) ==
    [factor |-> factor, initial_allowance |-> initial_allowance]

\* AntiAmplificationGuard::new
AntiAmplificationGuardNew(config) ==
    [config |-> config, received |-> 0, sent |-> 0, verified |-> FALSE]

\* AntiAmplificationGuard::on_receive
on_receive(g, bytes) == [g EXCEPT !.received = saturating_add(g.received, bytes)]

\* AntiAmplificationGuard::available_budget
available_budget(g) ==
    IF g.verified THEN U64_MAX
    ELSE saturating_sub(
             saturating_add(saturating_mul(g.received, g.config.factor),
                            g.config.initial_allowance),
             g.sent)

\* try_consume that tests the bytes against the allowance, whatever was sent
try_consume_allowance(g, bytes) ==
    IF g.verified \/ bytes <= available_budget([g EXCEPT !.sent = 0])
    THEN [g |-> [g EXCEPT !.sent = saturating_add(g.sent, bytes)], ok |-> TRUE]
    ELSE [g |-> g, ok |-> FALSE]

\* AntiAmplificationGuard::try_consume: the guard after the call and the result
try_consume(g, bytes) ==
    IF g.verified
    THEN [g |-> [g EXCEPT !.sent = saturating_add(g.sent, bytes)], ok |-> TRUE]
    ELSE IF bytes <= available_budget(g)
    THEN [g |-> [g EXCEPT !.sent = saturating_add(g.sent, bytes)], ok |-> TRUE]
    ELSE [g |-> g, ok |-> FALSE]

\* AntiAmplificationGuard::mark_verified
mark_verified(g) == [g EXCEPT !.verified = TRUE]

\* ---- a guard driven by an endpoint -------------------------------------
AmpFactors == {0, 1, 3}
AmpAllowances == {0, 2}
AmpBytes == {0, 1, 2, U64_MAX}

InitAmp ==
    /\ \E factor \in AmpFactors, initial_allowance \in AmpAllowances :
           amp = AntiAmplificationGuardNew(AmplificationConfig(factor, initial_allowance))
    /\ ampTotals = [received |-> 0, sent |-> 0, calls |-> 0]
    /\ ampRes = [op |-> "new", bytes |-> 0, ok |-> TRUE, before |-> amp]

OnReceive(bytes) ==
    /\ ampTotals.calls < MaxAmpCalls
    /\ amp' = on_receive(amp, bytes)
    /\ ampTotals' = [ampTotals EXCEPT !.received = @ + bytes, !.calls = @ + 1]
    /\ ampRes' = [op |-> "on_receive", bytes |-> bytes, ok |-> TRUE, before |-> amp]
    /\ UNCHANGED notAmp

TryConsume(bytes) ==
    LET r == try_consume(amp, bytes) IN
    /\ ampTotals.calls < MaxAmpCalls
    /\ amp' = r.g
    /\ ampTotals' = [ampTotals EXCEPT !.sent = IF r.ok THEN @ + bytes ELSE @,
                                      !.calls = @ + 1]
    /\ ampRes' = [op |-> "try_consume", bytes |-> bytes, ok |-> r.ok, before |-> amp]
    /\ UNCHANGED notAmp

MarkVerified ==
    /\ amp' = mark_verified(amp)
    /\ ampRes' = [op |-> "mark_verified", bytes |-> 0, ok |-> TRUE, before |-> amp]
    /\ UNCHANGED ampTotals
    /\ UNCHANGED notAmp

NextAmp ==
    \/ \E bytes \in AmpBytes : OnReceive(bytes)
    \/ \E bytes \in AmpBytes : TryConsume(bytes)
    \/ MarkVerified

(***************************************************************************)
(* DatagramQueue (datagram.rs)                                             *)
(***************************************************************************)
\* calls of enqueue in one run of the model
MaxEnqueues == 4
\* calls of on_receive on the guard in one run of the model
MaxGuardCalls == 2
\* longest payload handed to enqueue
MaxPayloadLen == 3

\* the configurations of the queue and of the guard of a run
DatagramConfigs == [max_payload : {1, 2}, max_queue : {1, 2}]
DatagramGuards == {AmplificationConfig(1, a) : a \in {0, 2}}

\* DatagramQueue::new
DatagramQueueNew(config) == [config |-> config, queue |-> <<>>]

\* DatagramQueue::enqueue: the queue after the call and the error
enqueue(dq, payload) ==
    IF Len(payload) > dq.config.max_payload
    THEN [dq |-> dq, err |-> "PayloadTooLarge", len |-> Len(payload),
          max |-> dq.config.max_payload]
    ELSE IF Len(dq.queue) >= dq.config.max_queue
    THEN [dq |-> dq, err |-> "QueueFull", len |-> 0, max |-> dq.config.max_queue]
    ELSE [dq |-> [dq EXCEPT !.queue = Append(@, payload)], err |-> "Ok",
          len |-> 0, max |-> 0]

NoPayload == [some |-> FALSE, v |-> <<>>]

\* the positions of the payloads that fit the budget of guard g
Fitting(payloads, g) ==
    {k \in DOMAIN payloads : try_consume(g, Len(payloads[k])).ok}

\* a dequeue_with_guard that hands out the first payload the guard lets pass
dequeue_first_fitting(dq, g) ==
    IF Fitting(dq.queue, g) = {} THEN [dq |-> dq, g |-> g, out |-> NoPayload]
    ELSE LET k == SetMin(Fitting(dq.queue, g)) IN
         [dq |-> [dq EXCEPT !.queue = SubSeq(@, 1, k - 1) \o SubSeq(@, k + 1, Len(@))],
          g |-> try_consume(g, Len(dq.queue[k])).g,
          out |-> [some |-> TRUE, v |-> dq.queue[k]]]

\* DatagramQueue::dequeue_with_guard: the queue and the guard after the call
\* and the payload returned, if any
dequeue_with_guard(dq, g) ==
    IF dq.queue = <<>> THEN [dq |-> dq, g |-> g, out |-> NoPayload]
    ELSE LET payload == Head(dq.queue)
             c == try_consume(g, Len(payload))
         IN IF c.ok
            THEN [dq |-> [dq EXCEPT !.queue = Tail(@)], g |-> c.g,
                  out |-> [some |-> TRUE, v |-> payload]]
            ELSE [dq |-> dq, g |-> c.g, out |-> NoPayload]

NoDgLog == [enqueued |-> <<>>, dequeued |-> <<>>, enqueues |-> 0, receives |-> 0]
NoDgCall(dq, g) ==
    [op |-> "new", len |-> 0, err |-> "Ok", out |-> NoPayload, queue |-> dq, guard |-> g]

InitDgram ==
    /\ \E config \in DatagramConfigs, guard \in DatagramGuards :
          /\ dgQueue = DatagramQueueNew(config)
          /\ dgGuard = AntiAmplificationGuardNew(guard)
    /\ dgLog = NoDgLog
    /\ dgRes = NoDgCall(dgQueue, dgGuard)

\* queue.enqueue(payload) with a payload of len bytes; the payloads of a run
\* differ from one another
Enqueue(len) ==
    /\ dgLog.enqueues < MaxEnqueues
    /\ \E payload \in {[i \in 1..len |-> dgLog.enqueues + 1]} :
       \E r \in {enqueue(dgQueue, payload)} :
          /\ dgQueue' = r.dq
          /\ dgLog' = [dgLog EXCEPT
                          !.enqueues = @ + 1,
                          !.enqueued = IF r.err = "Ok" THEN Append(@, payload) ELSE @]
          /\ dgRes' = [op |-> "enqueue", len |-> len, err |-> r.err, out |-> NoPayload,
                       queue |-> dgQueue, guard |-> dgGuard]
    /\ UNCHANGED dgGuard
    /\ UNCHANGED notDgram

\* queue.dequeue_with_guard(&mut guard)
DequeueWithGuard ==
    /\ \E r \in {dequeue_with_guard(dgQueue, dgGuard)} :
          /\ dgQueue' = r.dq
          /\ dgGuard' = r.g
          /\ dgLog' = [dgLog EXCEPT
                          !.dequeued = IF r.out.some THEN Append(@, r.out.v) ELSE @]
          /\ dgRes' = [op |-> "dequeue_with_guard", len |-> 0, err |-> "Ok",
                       out |-> r.out, queue |-> dgQueue, guard |-> dgGuard]
    /\ UNCHANGED notDgram

\* guard.on_receive(bytes): the peer's bytes raise the budget
GuardOnReceive(bytes) ==
    /\ dgLog.receives < MaxGuardCalls
    /\ dgGuard' = on_receive(dgGuard, bytes)
    /\ dgLog' = [dgLog EXCEPT !.receives = @ + 1]
    /\ dgRes' = [NoDgCall(dgQueue, dgGuard) EXCEPT !.op = "on_receive", !.len = bytes]
    /\ UNCHANGED dgQueue
    /\ UNCHANGED notDgram

NextDgram ==
    \/ \E len \in 0..MaxPayloadLen : Enqueue(len)
    \/ DequeueWithGuard
    \/ \E bytes \in 1..2 : GuardOnReceive(bytes)

(***************************************************************************)
(* BufferPool (buffer.rs)                                                  *)
(*                                                                         *)
(* A Vec<u8> allocation is [id, bytes]: id names the allocation (its heap  *)
(* block), bytes are its contents.  The threads run acquire and the drop   *)
(* of a lease step by step; the steps between lock() and the release of    *)
(* the MutexGuard are taken while the thread holds the lock.               *)
(***************************************************************************)
\* the threads that share the pool
PoolThreads == {1, 2}
\* buffer_size of the pool
BufferSize == 2
\* calls of acquire in one run of the model
MaxAcquires == 4
\* a thread that holds no lock / no thread holds the lock
NoThread == 0

\* vec![0u8; buffer_size]
zeroed(size) == [i \in 1..size |-> 0]
NoAlloc == [id |-> 0, bytes |-> <<>>]

\* BufferPool::new: max_buffers zeroed allocations in the FIFO
BufferPoolNew(buffer_size, max_buffers) ==
    [buffers |-> [k \in 1..max_buffers |-> [id |-> k, bytes |-> zeroed(buffer_size)]],
     buffer_size |-> buffer_size, max_buffers |-> max_buffers, lock |-> NoThread]

\* Mutex::lock by thread t, and the drop of its MutexGuard
lock(po, t) == [po EXCEPT !.lock = t]
unlock(po) == [po EXCEPT !.lock = NoThread]

\* acquire, under the lock: pop_front().unwrap_or_else(|| vec![0; size]); the
\* pool after it, the allocation taken and whether it is a fresh one (fresh_id
\* names a fresh allocation)
pop_or_allocate(po, fresh_id) ==
    IF po.buffers # <<>>
    THEN [po |-> [po EXCEPT !.buffers = Tail(@)], buffer |-> Head(po.buffers),
          fresh |-> FALSE]
    ELSE [po |-> po, buffer |-> [id |-> fresh_id, bytes |-> zeroed(po.buffer_size)],
          fresh |-> TRUE]

\* the Buffer that acquire builds around the allocation
BufferOf(alloc) == [data |-> alloc, some |-> TRUE, len |-> 0]
NoBuffer == [data |-> NoAlloc, some |-> FALSE, len |-> 0]

\* a drop that hands the allocation back as the lease holder left it
take_as_is(alloc) == alloc

\* Drop for Buffer, before the lock: data.take() and data.fill(0)
take_and_fill(alloc) == [alloc EXCEPT !.bytes = zeroed(Len(@))]

\* Drop for Buffer, under the lock: push_back while the FIFO is short of
\* max_buffers, else the allocation is freed
give_back(po, alloc) ==
    IF Len(po.buffers) < po.max_buffers
    THEN [po EXCEPT !.buffers = Append(@, alloc)]
    ELSE po

\* Buffer::as_mut_slice()[i] = byte, then Buffer::set_len(len)
write(buffer, i, byte, len) ==
    [buffer EXCEPT !.data.bytes[i] = byte, !.len = len]

NoAcquire == [done |-> FALSE, buffer |-> NoBuffer, fresh |-> FALSE, empty |-> FALSE]
ThreadNew == [pc |-> "idle", lease |-> NoBuffer, hand |-> NoAlloc, last |-> NoAcquire]

InitPool ==
    /\ \E max_buffers \in 1..2 : pool = BufferPoolNew(BufferSize, max_buffers)
    /\ poolThreads = [t \in PoolThreads |-> ThreadNew]
    /\ poolLog = [allocated |-> pool.max_buffers, acquires |-> 0, written |-> {}]

\* thread t calls pool.acquire() and gets the lock
AcquireLock(t) ==
    /\ poolThreads[t].pc = "idle"
    /\ ~poolThreads[t].lease.some
    /\ poolLog.acquires < MaxAcquires
    /\ pool.lock = NoThread
    /\ pool' = lock(pool, t)
    /\ poolThreads' = [poolThreads EXCEPT ![t].pc = "acquire_locked"]
    /\ poolLog' = [poolLog EXCEPT !.acquires = @ + 1]
    /\ UNCHANGED notPool

\* thread t, holding the lock, takes the front of the FIFO or allocates
AcquireTake(t) ==
    /\ poolThreads[t].pc = "acquire_locked"
    /\ \E r \in {pop_or_allocate(pool, poolLog.allocated + 1)} :
          /\ pool' = r.po
          /\ poolThreads' = [poolThreads EXCEPT
                 ![t].pc = "acquire_built",
                 ![t].hand = r.buffer,
                 ![t].last = [done |-> FALSE, buffer |-> NoBuffer, fresh |-> r.fresh,
                              empty |-> pool.buffers = <<>>]]
          /\ poolLog' = [poolLog EXCEPT !.allocated = IF r.fresh THEN @ + 1 ELSE @]
    /\ UNCHANGED notPool

\* acquire returns the Buffer to thread t; the MutexGuard is dropped
AcquireReturn(t) ==
    /\ poolThreads[t].pc = "acquire_built"
    /\ pool' = unlock(pool)
    /\ poolThreads' = [poolThreads EXCEPT
           ![t].pc = "idle",
           ![t].lease = BufferOf(poolThreads[t].hand),
           ![t].hand = NoAlloc,
           ![t].last.done = TRUE,
           ![t].last.buffer = BufferOf(poolThreads[t].hand)]
    /\ UNCHANGED poolLog
    /\ UNCHANGED notPool

\* thread t writes into the buffer it leases
Write(t, i, byte) ==
    /\ poolThreads[t].pc = "idle"
    /\ poolThreads[t].lease.some
    /\ poolThreads' = [poolThreads EXCEPT ![t].lease = write(@, i, byte, i)]
    /\ poolLog' = [poolLog EXCEPT !.written = @ \cup {poolThreads[t].lease.data.id}]
    /\ UNCHANGED pool
    /\ UNCHANGED notPool

\* thread t drops its lease: the allocation is taken out and zeroed
DropTake(t) ==
    /\ poolThreads[t].pc = "idle"
    /\ poolThreads[t].lease.some
    /\ poolThreads' = [poolThreads EXCEPT
           ![t].pc = "drop_filled",
           ![t].hand = take_and_fill(poolThreads[t].lease.data),
           ![t].lease = NoBuffer]
    /\ UNCHANGED <<pool, poolLog>>
    /\ UNCHANGED notPool

\* the drop of thread t gets the lock
DropLock(t) ==
    /\ poolThreads[t].pc = "drop_filled"
    /\ pool.lock = NoThread
    /\ pool' = lock(pool, t)
    /\ poolThreads' = [poolThreads EXCEPT ![t].pc = "drop_locked"]
    /\ UNCHANGED poolLog
    /\ UNCHANGED notPool

\* the drop of thread t, holding the lock, hands the allocation back or
\* frees it, and releases the lock
DropGiveBack(t) ==
    /\ poolThreads[t].pc = "drop_locked"
    /\ pool' = unlock(give_back(pool, poolThreads[t].hand))
    /\ poolThreads' = [poolThreads EXCEPT ![t].pc = "idle", ![t].hand = NoAlloc]
    /\ UNCHANGED poolLog
    /\ UNCHANGED notPool

NextPool ==
    \/ \E t \in PoolThreads : AcquireLock(t)
    \/ \E t \in PoolThreads : AcquireTake(t)
    \/ \E t \in PoolThreads : AcquireReturn(t)
    \/ \E t \in PoolThreads, i \in 1..BufferSize, byte \in 0..1 : Write(t, i, byte)
    \/ \E t \in PoolThreads : DropTake(t)
    \/ \E t \in PoolThreads : DropLock(t)
    \/ \E t \in PoolThreads : DropGiveBack(t)

(***************************************************************************)
(* Congestion control (congestion.rs)                                      *)
(*                                                                         *)
(* The f64 rates are whole numbers of bytes per millisecond, and the gains *)
(* of the pacing cycle are quarters.                                       *)
(***************************************************************************)
\* Duration::from_millis(1), in nanoseconds
MILLISECOND == 1000 * MICROSECOND
\* PACING_GAINS, in quarters
PACING_GAINS == <<5, 4, 4, 4, 4, 4, 3, 4>>
\* calls on a controller in one run of the model
MaxCcCalls == 4

\* CongestionConfig
CongestionConfig(initial_window, min_window, max_window, min_pacing_rate, max_pacing_rate) ==
    [initial_window |-> initial_window, min_window |-> min_window,
     max_window |-> max_window, min_pacing_rate |-> min_pacing_rate,
     max_pacing_rate |-> max_pacing_rate]

\* CongestionConfig::default(): 32 KiB, 4 KiB, 4 MiB, 1000 B/s, 400 MB/s
CongestionConfigDefault == CongestionConfig(32 * 1024, 4 * 1024, 4 * 1024 * 1024, 1, 400000)

\* CongestionController::recompute_pacing
recompute_pacing(c) ==
    LET base_rate == MaxNat(c.bandwidth_estimate, c.config.min_pacing_rate)
        gain == PACING_GAINS[c.cycle_index + 1]
        rate == (base_rate * gain) \div 4
    IN [c EXCEPT !.pacing_rate =
            MaxNat(MinNat(rate, c.config.max_pacing_rate), c.config.min_pacing_rate)]

\* CongestionController::new
CongestionControllerNew(config) ==
    recompute_pacing(
        [config |-> config, inflight_bytes |-> 0,
         congestion_window |-> config.initial_window,
         pacing_rate |-> config.min_pacing_rate,
         bandwidth_estimate |-> config.min_pacing_rate,
         cycle_index |-> 0, last_cycle_start |-> None,
         max_inflight |-> config.initial_window])

\* CongestionController::on_packet_sent
controller_on_packet_sent(c, size) ==
    LET inflight == saturating_add_usize(c.inflight_bytes, size) IN
    [c EXCEPT !.inflight_bytes = inflight,
              !.max_inflight = MaxNat(c.max_inflight, inflight)]

\* CongestionController::increase_window
increase_window(c) ==
    [c EXCEPT !.congestion_window = MinNat(c.congestion_window + 1500, c.config.max_window)]

\* CongestionController::reduce_window
reduce_window(c) ==
    LET window == MaxNat(c.congestion_window \div 2, c.config.min_window) IN
    [c EXCEPT !.congestion_window = window,
              !.inflight_bytes = MinNat(c.inflight_bytes, window)]

\* CongestionController::advance_pacing_cycle
advance_pacing_cycle(c, now) ==
    IF ~c.last_cycle_start.some
    THEN [c EXCEPT !.last_cycle_start = Some(now), !.cycle_index = 0]
    ELSE IF duration_since(now, c.last_cycle_start.v) >= 55 * MILLISECOND
    THEN [c EXCEPT !.cycle_index = (c.cycle_index + 1) % Len(PACING_GAINS),
                   !.last_cycle_start = Some(now)]
    ELSE c

\* the sum of the sizes of a list of SentPacketInfo
RECURSIVE SizeSum(_)
SizeSum(infos) == IF infos = <<>> THEN 0 ELSE Head(infos).size + SizeSum(Tail(infos))

\* delivered as f64 / duration_to_secs(rtt).max(1e-9), in bytes per
\* millisecond: acked * MILLISECOND / rtt, computed in two parts
bytes_per_millisecond(acked, rtt) ==
    LET nanos == MaxNat(rtt, 1) IN
    (MILLISECOND \div nanos) * acked + ((MILLISECOND % nanos) * acked) \div nanos

\* CongestionController::on_ack_outcome
on_ack_outcome(c, outcome, now) ==
    LET c1 == [c EXCEPT !.inflight_bytes =
                   saturating_sub(c.inflight_bytes, SizeSum(outcome.acknowledged))]
        bw == bytes_per_millisecond(SizeSum(outcome.acknowledged), outcome.rtt_sample.v)
        c2 == IF outcome.acknowledged = <<>> THEN c1
              ELSE increase_window(
                       IF outcome.rtt_sample.some /\ outcome.rtt_sample.v > 0
                       THEN [c1 EXCEPT !.bandwidth_estimate = MaxNat(c1.bandwidth_estimate, bw)]
                       ELSE c1)
        c3 == IF outcome.lost = <<>> THEN c2 ELSE reduce_window(c2)
    IN recompute_pacing(advance_pacing_cycle(c3, now))

\* ---- a controller driven by a sender -----------------------------------
\* the default configuration, and ones whose fields are out of order
CcConfigs ==
    {CongestionConfigDefault,
     CongestionConfig(3000, 1500, 4500, 2, 3),
     CongestionConfig(1000, 2000, 4000, 1, 400000),
     CongestionConfig(8000, 2000, 4000, 1, 400000),
     CongestionConfig(3000, 1500, 4500, 5, 3)}
CcSizes == {1200}
CcTimes == {0, 55 * MILLISECOND}
CcRtts == {None, Some(0), Some(Tick)}
CcPackets == {<<>>, <<SentPacketInfo(0, 0, 1200, TRUE)>>,
              <<SentPacketInfo(0, 0, 1200, TRUE), SentPacketInfo(1, 0, 1200, TRUE)>>}

InitCc ==
    /\ \E config \in CcConfigs : cc = CongestionControllerNew(config)
    /\ ccCalls = 0

ControllerOnPacketSent(size) ==
    /\ ccCalls < MaxCcCalls
    /\ cc' = controller_on_packet_sent(cc, size)
    /\ ccCalls' = ccCalls + 1
    /\ UNCHANGED notCc

OnAckOutcome(acknowledged, lost, rtt_sample, now) ==
    /\ ccCalls < MaxCcCalls
    /\ cc' = on_ack_outcome(cc, [acknowledged |-> acknowledged, lost |-> lost,
                                 rtt_sample |-> rtt_sample], now)
    /\ ccCalls' = ccCalls + 1
    /\ UNCHANGED notCc

NextCc ==
    \/ \E size \in CcSizes : ControllerOnPacketSent(size)
    \/ \E acknowledged \in CcPackets, lost \in CcPackets, rtt_sample \in CcRtts,
          now \in CcTimes : OnAckOutcome(acknowledged, lost, rtt_sample, now)

\* ---- a sender that reports to its loss manager and its controller ------
\* the sender registers every packet with both, and hands every AckOutcome
\* of the loss manager to the controller
InitCong ==
    /\ InitLoss
    /\ cc = CongestionControllerNew(CongestionConfigDefault)
    /\ ccCalls = 0

SenderPacketSent(packet_number, now, size) ==
    /\ Len(sentLog) < MaxSent
    /\ \A i \in DOMAIN sentLog : sentLog[i].packet_number # packet_number
    /\ loss' = on_packet_sent(loss, packet_number, now, size, TRUE)
    /\ cc' = controller_on_packet_sent(cc, size)
    /\ clock' = now
    /\ sentLog' = Append(sentLog, SentPacketInfo(packet_number, now, size, TRUE))
    /\ UNCHANGED <<ackedLog, lostLog, reports, ccCalls>>
    /\ UNCHANGED notLossCc

SenderAckFrame(frame, now) ==
    LET r == on_ack_frame(loss, frame, now) IN
    /\ loss' = r.l
    /\ cc' = on_ack_outcome(cc, r.outcome, now)
    /\ clock' = now
    /\ ackedLog' = ackedLog \cup Tagged(r.outcome.acknowledged, "ack")
    /\ lostLog' = lostLog \cup Tagged(r.outcome.lost, "ack")
    /\ reports' = reports + Len(r.outcome.acknowledged) + Len(r.outcome.lost)
    /\ UNCHANGED <<sentLog, ccCalls>>
    /\ UNCHANGED notLossCc

\* on_loss_timeout returns a list of packets, not an AckOutcome
SenderLossTimeout(now) ==
    LET r == on_loss_timeout(loss, now) IN
    /\ loss' = r.l
    /\ clock' = now
    /\ lostLog' = lostLog \cup Tagged(r.lost, "timeout")
    /\ reports' = reports + Len(r.lost)
    /\ UNCHANGED <<sentLog, ackedLog, cc, ccCalls>>
    /\ UNCHANGED notLossCc

NextCong ==
    \/ \E packet_number \in PacketNumbers, now \in Times, size \in PacketSizes :
          SenderPacketSent(packet_number, now, size)
    \/ \E frame \in AckFrames, now \in Times : SenderAckFrame(frame, now)
    \/ \E now \in Times : SenderLossTimeout(now)

(***************************************************************************)
(* Handshake (handshake.rs, crypto.rs, crypto/mixing.rs)                   *)
(*                                                                         *)
(* Keys, secrets and the chaining key are byte arrays of KeyLen bytes      *)
(* (32 in the source); every byte operation is the source's.  The clock    *)
(* of the handshake counts whole seconds.                                  *)
(***************************************************************************)
\* length of every key array of the model
KeyLen == 2
\* make_confirmation_payload takes 16 of the 32 bytes of the chaining key
ConfirmLen == KeyLen \div 2
\* messages the network keeps for delivery in one run of the model
MaxWire == 4
\* calls on the two peers in one run of the model
MaxHsCalls == 6
\* the handshake's clock runs from 0 to MaxHsTime seconds
MaxHsTime == 61
\* AntiReplayStore::new(512, Duration::from_secs(60)) of both peers
REPLAY_CAPACITY == 512
REPLAY_TTL == 60
\* SessionTicketManager::new(Duration::from_secs(600), 1024) of the responder
RESPONDER_TICKET_TTL == 600
RESPONDER_TICKET_CAPACITY == 1024

\* u8::wrapping_add and u8::wrapping_mul
wrapping_add_u8(a, b) == (a + b) % 256
wrapping_mul_u8(a, b) == (a * b) % 256

\* Option<PrivateKey> and Option<PublicKey>
NoKey == [some |-> FALSE, v |-> <<>>]
SomeKey(key) == [some |-> TRUE, v |-> key]

\* the order of byte slices: a < b and a <= b
RECURSIVE bytes_lt(_, _)
bytes_lt(a, b) ==
    IF b = <<>> THEN FALSE
    ELSE IF a = <<>> THEN TRUE
    ELSE IF Head(a) # Head(b) THEN Head(a) < Head(b)
    ELSE bytes_lt(Tail(a), Tail(b))

bytes_le(a, b) == a = b \/ bytes_lt(a, b)

\* tests::fixed_private
fixed_private(seed) == [i \in 1..KeyLen |-> wrapping_add_u8(seed, i - 1)]

\* PrivateKey::derive_ephemeral
derive_ephemeral(private, counter) ==
    [i \in 1..KeyLen |->
        Xor(private[i], rotate_left(wrapping_add_u8(counter, i - 1), 1))]

\* PrivateKey::public_key
public_key(private) ==
    [i \in 1..KeyLen |->
        rotate_left(wrapping_add_u8(wrapping_mul_u8(private[i], 2), 1), (i - 1) % 8)]

\* x25519_diffie_hellman: always Ok, the secret has the length from_bytes asks for
x25519_diffie_hellman(private, public) ==
    LET local_public == public_key(private)
        first == IF bytes_lt(local_public, public) THEN local_public ELSE public
        second == IF bytes_lt(local_public, public) THEN public ELSE local_public
    IN [i \in 1..KeyLen |->
           rotate_left(wrapping_mul_u8(wrapping_add_u8(first[i], second[i]), 45),
                       ((i - 1) % 8) + 3)]

\* mixing::xor_cycle
xor_cycle(dst, src, tweak) ==
    IF src = <<>> THEN dst
    ELSE [i \in 1..Len(dst) |->
             Xor(dst[i], Xor(src[((i - 1) % Len(src)) + 1], tweak))]

\* mixing::rotate_add
rotate_add(dst, src, tweak) ==
    IF src = <<>> THEN dst
    ELSE [i \in 1..Len(dst) |->
             rotate_left(wrapping_add_u8(src[((i - 1) % Len(src)) + 1], tweak),
                         ((i - 1) % 8) + 1)]

\* HandshakeState::new
HandshakeStateNew(local_static) ==
    [local_static |-> local_static, local_ephemeral |-> NoKey,
     remote_static |-> NoKey, remote_ephemeral |-> NoKey,
     chaining_key |-> [i \in 1..KeyLen |-> 0], temp_key |-> [i \in 1..KeyLen |-> 0]]

\* HandshakeState::mix_key
mix_key(state, material) ==
    LET chaining == xor_cycle(state.chaining_key, material, 0) IN
    [state EXCEPT !.chaining_key = chaining,
                  !.temp_key = rotate_add(state.temp_key, chaining, 66)]

\* mix_static_prologue
mix_static_prologue(state, local_public, remote_public) ==
    LET first == IF bytes_le(local_public, remote_public)
                 THEN local_public ELSE remote_public
        second == IF bytes_le(local_public, remote_public)
                  THEN remote_public ELSE local_public
    IN mix_key(state, first \o second)

\* SessionKeys
NoKeys == [send |-> <<>>, receive |-> <<>>]

\* derive_session_keys of crypto.rs; the fold over the five inputs is an
\* exclusive or, so the order the sort gives them does not show in the result
derive_session_keys(shared, local_static, remote_static, local_ephemeral, remote_ephemeral, is_initiator) ==
    LET Part(slice, i) ==
            rotate_left(slice[((i - 1) % Len(slice)) + 1], ((i - 1) % 8) + 1)
        base == [i \in 1..KeyLen |->
                    Xor(Xor(Xor(i - 1, Part(shared, i)),
                            Xor(Part(local_static, i), Part(remote_static, i))),
                        Xor(Part(local_ephemeral, i), Part(remote_ephemeral, i)))]
        alternate == [i \in 1..KeyLen |->
                         rotate_left(wrapping_add_u8(base[i], 90), ((i - 1) % 8) + 2)]
    IN IF is_initiator THEN [send |-> base, receive |-> alternate]
       ELSE [send |-> alternate, receive |-> base]

\* derive_session_keys(&state, initiator) as handshake.rs calls it: the keys
\* come from the chaining key and the four public keys of the state, and a
\* state that lacks one of them is MissingKeyMaterial
derive_session_keys_of_state(state, is_initiator) ==
    IF \/ ~state.local_ephemeral.some
       \/ ~state.remote_static.some
       \/ ~state.remote_ephemeral.some
    THEN [ok |-> FALSE, err |-> "MissingKeyMaterial", keys |-> NoKeys]
    ELSE [ok |-> TRUE, err |-> "none",
          keys |-> derive_session_keys(state.chaining_key,
                                       public_key(state.local_static),
                                       state.remote_static.v,
                                       public_key(state.local_ephemeral.v),
                                       state.remote_ephemeral.v, is_initiator)]

\* HandshakeMessageKind and its discriminant
HandshakeMessageKinds == {"InitiatorHello", "ResponderHello", "InitiatorFinish"}
kind_byte(kind) ==
    CASE kind = "InitiatorHello" -> 1
      [] kind = "ResponderHello" -> 2
      [] kind = "InitiatorFinish" -> 3

\* HandshakeMessage::new
HandshakeMessageNew(kind, ephemeral, payload) ==
    [kind |-> kind, ephemeral |-> ephemeral, payload |-> payload]

NoMessage == HandshakeMessageNew("none", <<>>, <<>>)

\* HandshakeMessage::encode
handshake_encode(message) ==
    LET len == IF Len(message.payload) < 65536 THEN Len(message.payload) ELSE 0 IN
    <<kind_byte(message.kind)>> \o message.ephemeral
        \o <<len % 256, len \div 256>> \o message.payload

\* AntiReplayStore::new
AntiReplayStoreNew(capacity, ttl) ==
    [seen |-> {}, order |-> <<>>, capacity |-> capacity, ttl |-> ttl]

\* AntiReplayStore::evict_expired
RECURSIVE evict_expired(_, _)
evict_expired(replay, now) ==
    IF replay.order = <<>> THEN replay
    ELSE LET front == Head(replay.order) IN
         IF now - front.timestamp > replay.ttl
         THEN evict_expired([replay EXCEPT !.order = Tail(replay.order),
                                           !.seen = @ \ {front.entry}], now)
         ELSE replay

\* AntiReplayStore::record: the store after the call, and whether it was Ok
anti_replay_record(replay, payload, now) ==
    LET r1 == evict_expired(replay, now) IN
    IF payload \in r1.seen THEN [replay |-> r1, ok |-> FALSE]
    ELSE LET r2 == IF Len(r1.order) >= r1.capacity /\ r1.order # <<>>
                   THEN [r1 EXCEPT !.order = Tail(r1.order),
                                   !.seen = @ \ {Head(r1.order).entry}]
                   ELSE r1
         IN [replay |-> [r2 EXCEPT !.seen = @ \cup {payload},
                                   !.order = Append(@, [entry |-> payload,
                                                        timestamp |-> now])],
             ok |-> TRUE]

\* the result of a handshake step: the object after the call, Ok or the
\* error, and what an Ok carries
HsOk(obj, message, keys, ticket) ==
    [obj |-> obj, ok |-> TRUE, err |-> "none", message |-> message,
     keys |-> keys, ticket |-> ticket]
HsErr(obj, err) ==
    [obj |-> obj, ok |-> FALSE, err |-> err, message |-> NoMessage,
     keys |-> NoKeys, ticket |-> NoTicket]

\* Initiator::new
InitiatorNew(local_static, remote_static) ==
    [state |-> [HandshakeStateNew(local_static)
                    EXCEPT !.remote_static = SomeKey(remote_static)],
     stage |-> "Ready",
     remote_static |-> remote_static,
     anti_replay |-> AntiReplayStoreNew(REPLAY_CAPACITY, REPLAY_TTL)]

\* Initiator::initiate
initiate(i) ==
    LET local_ephemeral == derive_ephemeral(i.state.local_static, 17)
        s1 == [i.state EXCEPT !.local_ephemeral = SomeKey(local_ephemeral)]
        s2 == mix_static_prologue(s1, public_key(s1.local_static), i.remote_static)
    IN HsOk([i EXCEPT !.state = s2, !.stage = "AwaitingResponse"],
            HandshakeMessageNew("InitiatorHello", public_key(local_ephemeral), <<>>),
            NoKeys, NoTicket)

\* Initiator::make_confirmation_payload
make_confirmation_payload(i) == SubSeq(i.state.chaining_key, 1, ConfirmLen)

\* Initiator::handle_response
handle_response(i, message, now) ==
    IF i.stage # "AwaitingResponse" \/ message.kind # "ResponderHello"
    THEN HsErr(i, "UnexpectedMessage")
    ELSE
    LET r == anti_replay_record(i.anti_replay, message.payload, now)
        i1 == [i EXCEPT !.anti_replay = r.replay]
    IN IF ~r.ok THEN HsErr(i1, "ReplayDetected")
    ELSE
    LET i2 == [i1 EXCEPT !.state.remote_ephemeral = SomeKey(message.ephemeral)]
    IN IF ~i2.state.local_ephemeral.some THEN HsErr(i2, "MissingKeyMaterial")
    ELSE
    LET local_ephemeral == i2.state.local_ephemeral.v
        shared == x25519_diffie_hellman(local_ephemeral, message.ephemeral)
        i3 == [i2 EXCEPT !.state = mix_key(i2.state, shared)]
        derived == derive_session_keys_of_state(i3.state, TRUE)
    IN IF ~derived.ok THEN HsErr(i3, derived.err)
    ELSE
    LET i4 == [i3 EXCEPT !.state = mix_key(i3.state, message.payload)]
        final_message == HandshakeMessageNew("InitiatorFinish",
                                             public_key(local_ephemeral),
                                             make_confirmation_payload(i4))
    IN HsOk([i4 EXCEPT !.stage = "Complete"], final_message, derived.keys, NoTicket)

\* Responder::new
ResponderNew(local_static, remote_static) ==
    LET fresh == HandshakeStateNew(local_static)
        state == IF remote_static.some
                 THEN [mix_static_prologue(fresh, public_key(local_static),
                                           remote_static.v)
                           EXCEPT !.remote_static = remote_static]
                 ELSE fresh
    IN [state |-> state,
        stage |-> "Ready",
        anti_replay |-> AntiReplayStoreNew(REPLAY_CAPACITY, REPLAY_TTL),
        tickets |-> SessionTicketManagerNew(RESPONDER_TICKET_TTL,
                                            RESPONDER_TICKET_CAPACITY)]

\* Responder::handle_initiator_hello without the test of the stage and kind
handle_initiator_hello_body(r, message, now) ==
    LET a == anti_replay_record(r.anti_replay, handshake_encode(message), now)
        r1 == [r EXCEPT !.anti_replay = a.replay]
    IN IF ~a.ok THEN HsErr(r1, "ReplayDetected")
    ELSE
    LET local_ephemeral == derive_ephemeral(r1.state.local_static, 34)
        s1 == [r1.state EXCEPT !.remote_ephemeral = SomeKey(message.ephemeral),
                               !.local_ephemeral = SomeKey(local_ephemeral)]
        shared == x25519_diffie_hellman(local_ephemeral, message.ephemeral)
        s2 == mix_key(s1, shared)
    IN HsOk([r1 EXCEPT !.state = s2, !.stage = "AwaitingFinal"],
            HandshakeMessageNew("ResponderHello", public_key(local_ephemeral),
                                s2.temp_key),
            NoKeys, NoTicket)

\* Responder::handle_initiator_hello
handle_initiator_hello(r, message, now) ==
    IF r.stage # "Ready" \/ message.kind # "InitiatorHello"
    THEN HsErr(r, "UnexpectedMessage")
    ELSE handle_initiator_hello_body(r, message, now)

\* Responder::handle_initiator_finish past the test of the stage and kind
handle_initiator_finish_body(r, message, now) ==
    LET a == anti_replay_record(r.anti_replay, message.payload, now)
        r1 == [r EXCEPT !.anti_replay = a.replay]
    IN IF ~a.ok THEN HsErr(r1, "ReplayDetected")
    ELSE
    LET derived == derive_session_keys_of_state(r1.state, FALSE)
    IN IF ~derived.ok THEN HsErr(r1, derived.err)
    ELSE
    LET s1 == mix_key(r1.state, message.payload)
        issued == issue(r1.tickets, s1.chaining_key, now)
    IN HsOk([r1 EXCEPT !.state = s1, !.tickets = issued.m, !.stage = "Complete"],
            NoMessage, derived.keys, issued.ticket)

\* a responder that tests the kind of the final message and not its own stage
handle_initiator_finish_any_stage(r, message, now) ==
    IF message.kind # "InitiatorFinish"
    THEN HsErr(r, "UnexpectedMessage")
    ELSE handle_initiator_finish_body(r, message, now)

\* Responder::handle_initiator_finish
handle_initiator_finish(r, message, now) ==
    IF r.stage # "AwaitingFinal" \/ message.kind # "InitiatorFinish"
    THEN HsErr(r, "UnexpectedMessage")
    ELSE handle_initiator_finish_body(r, message, now)

\* ---- two peers and the network between them ----------------------------
\* the static keys of the handshake tests
InitiatorSeeds == {16}
ResponderSeeds == {64}

NoHsCall == [op |-> "none", kind |-> "none", stage_before |-> "Ready",
             stage_after |-> "Ready", ok |-> TRUE, err |-> "none",
             keys |-> FALSE, failed_before |-> FALSE, changed |-> FALSE]

InitHs ==
    /\ \E iseed \in InitiatorSeeds, rseed \in ResponderSeeds, known \in BOOLEAN :
          /\ initiator = InitiatorNew(fixed_private(iseed),
                                      public_key(fixed_private(rseed)))
          /\ responder = ResponderNew(fixed_private(rseed),
                                      IF known
                                      THEN SomeKey(public_key(fixed_private(iseed)))
                                      ELSE NoKey)
    /\ hsClock = 0
    /\ hsWire = <<>>
    /\ initRes = NoHsCall
    /\ respRes = NoHsCall
    /\ hsHist = [initStages |-> <<"Ready">>, respStages |-> <<"Ready">>,
                 initFailed |-> FALSE, respFailed |-> FALSE,
                 initKeys |-> 0, respKeys |-> 0, calls |-> 0,
                 initSession |-> NoKeys, respSession |-> NoKeys,
                 initFinish |-> NoMessage, respFinish |-> NoMessage,
                 genuine |-> TRUE]

\* the network keeps a message the first time it sees it, while it has room
Carried(message) ==
    IF /\ message # NoMessage
       /\ Len(hsWire) < MaxWire
       /\ \A n \in DOMAIN hsWire : hsWire[n] # message
    THEN Append(hsWire, message) ELSE hsWire

\* the stages an object went through, a stage entered anew is added
Visited(stages, stage) ==
    IF stages[Len(stages)] = stage THEN stages ELSE Append(stages, stage)

\* a message is handed over under the kind it was sent with (a call without a
\* message hands over none)
OwnKind(given, kind) == given = NoMessage \/ given.kind = kind

\* what a call of the initiator leaves behind
InitiatorCalled(op, kind, given, r) ==
    /\ initiator' = r.obj
    /\ hsWire' = Carried(r.message)
    /\ initRes' = [op |-> op, kind |-> kind, stage_before |-> initiator.stage,
                   stage_after |-> r.obj.stage, ok |-> r.ok, err |-> r.err,
                   keys |-> r.keys # NoKeys, failed_before |-> hsHist.initFailed,
                   changed |-> r.obj # initiator]
    /\ hsHist' = [hsHist EXCEPT
                     !.initStages = Visited(@, r.obj.stage),
                     !.initFailed = @ \/ ~r.ok,
                     !.initKeys = IF r.keys # NoKeys THEN @ + 1 ELSE @,
                     !.initSession = IF r.keys # NoKeys THEN r.keys ELSE @,
                     !.initFinish = IF r.keys # NoKeys THEN r.message ELSE @,
                     !.genuine = @ /\ (r.ok => OwnKind(given, kind)),
                     !.calls = @ + 1]
    /\ UNCHANGED <<responder, hsClock, respRes>>
    /\ UNCHANGED notHs

\* what a call of the responder leaves behind
ResponderCalled(op, kind, given, r) ==
    /\ responder' = r.obj
    /\ hsWire' = Carried(r.message)
    /\ respRes' = [op |-> op, kind |-> kind, stage_before |-> responder.stage,
                   stage_after |-> r.obj.stage, ok |-> r.ok, err |-> r.err,
                   keys |-> r.keys # NoKeys, failed_before |-> hsHist.respFailed,
                   changed |-> r.obj # responder]
    /\ hsHist' = [hsHist EXCEPT
                     !.respStages = Visited(@, r.obj.stage),
                     !.respFailed = @ \/ ~r.ok,
                     !.respKeys = IF r.keys # NoKeys THEN @ + 1 ELSE @,
                     !.respSession = IF r.keys # NoKeys THEN r.keys ELSE @,
                     !.respFinish = IF r.keys # NoKeys THEN given ELSE @,
                     !.genuine = @ /\ (r.ok => OwnKind(given, kind)),
                     !.calls = @ + 1]
    /\ UNCHANGED <<initiator, hsClock, initRes>>
    /\ UNCHANGED notHs

\* the n-th message of the network, delivered under the given kind
Delivered(n, kind) == [hsWire[n] EXCEPT !.kind = kind]

Initiate ==
    /\ hsHist.calls < MaxHsCalls
    /\ InitiatorCalled("initiate", "none", NoMessage, initiate(initiator))

HandleResponse(n, kind) ==
    /\ hsHist.calls < MaxHsCalls
    /\ n \in DOMAIN hsWire
    /\ InitiatorCalled("handle_response", kind, hsWire[n],
                       handle_response(initiator, Delivered(n, kind), hsClock))

HandleInitiatorHello(n, kind) ==
    /\ hsHist.calls < MaxHsCalls
    /\ n \in DOMAIN hsWire
    /\ ResponderCalled("handle_initiator_hello", kind, hsWire[n],
                       handle_initiator_hello(responder, Delivered(n, kind), hsClock))

HandleInitiatorFinish(n, kind) ==
    /\ hsHist.calls < MaxHsCalls
    /\ n \in DOMAIN hsWire
    /\ ResponderCalled("handle_initiator_finish", kind, hsWire[n],
                       handle_initiator_finish(responder, Delivered(n, kind), hsClock))

\* the system clock moves past the lifetime of an anti-replay entry
HsTime ==
    /\ hsClock < MaxHsTime
    /\ hsClock' = hsClock + REPLAY_TTL + 1
    /\ UNCHANGED <<initiator, responder, hsWire, initRes, respRes, hsHist>>
    /\ UNCHANGED notHs

NextHs ==
    \/ Initiate
    \/ \E n \in 1..MaxWire, kind \in HandshakeMessageKinds : HandleResponse(n, kind)
    \/ \E n \in 1..MaxWire, kind \in HandshakeMessageKinds :
           HandleInitiatorHello(n, kind)
    \/ \E n \in 1..MaxWire, kind \in HandshakeMessageKinds :
           HandleInitiatorFinish(n, kind)
    \/ HsTime

(***************************************************************************)
(* The packet engine (tests/packet_engine.rs)                              *)
(*                                                                         *)
(* Two Endpoints joined by a SimLink, driven by the loop of                *)
(* packet_engine_survives_loss_and_reorder: the client ticks, the server   *)
(* ticks, the link delivers what is due, the client's loss timer is        *)
(* served, the exit test is made and the clock moves one step on.          *)
(*                                                                         *)
(* One step of the link (5 ms in the test) is one microsecond here, so the *)
(* default LossConfig reads 333/5 and 25/5 steps and an ACK delay in       *)
(* microseconds is a count of steps.  Every event of the loop happens at a *)
(* whole step, so every RTT sample is a whole number of steps and no       *)
(* duration reaches the one-microsecond floor of scale_duration.           *)
(*                                                                         *)
(* A sealed packet is carried as its packet number and its payload: what   *)
(* open recovers from the bytes seal_into wrote.                           *)
(***************************************************************************)
\* step_duration of the SimLink, and the step of the loop
STEP == MICROSECOND
\* delay_steps of the SimLink
DelaySteps == 3
\* messages the client enqueues
MaxMessages == 2
\* packets the link may drop in one run
MaxDrops == 1
\* the loop reads the clock as `now`; stored times are kept relative to it
EngineNow == 0
\* the indices the test gives the two endpoints
ClientIdx == 0
ServerIdx == 1

\* LossConfig::default(), in steps
EngineLossConfig ==
    [packet_threshold |-> 3,
     time_threshold_factor_numerator |-> 9,
     time_threshold_factor_denominator |-> 8,
     initial_rtt |-> (333 * STEP) \div 5,
     max_ack_delay |-> (25 * STEP) \div 5]

\* the guard Endpoint::new builds: the default configuration, verified
EngineAmp == mark_verified(AntiAmplificationGuardNew(AmplificationConfig(3, 1200 * 3)))

\* the messages of the test, one byte each
EngineMessages == {<<m>> : m \in 1..MaxMessages}

\* into_data_payload
into_data_payload(data) == <<0>> \o data

\* OutboundPacket
OutboundPacket(payload, ack_eliciting) ==
    [payload |-> payload, ack_eliciting |-> ack_eliciting]

\* width in bits of the modelled range count of an encoded frame (u16 in the
\* code), so that a frame with more ranges than the count can name is within
\* reach of the model
RangeCountBits == 2
RANGE_COUNT_MAX == 2 ^ RangeCountBits - 1

\* AckFrame::encode, one element for each integer written
RECURSIVE encode_ranges(_)
encode_ranges(ranges) ==
    IF ranges = <<>> THEN <<>>
    ELSE <<Head(ranges).start, Head(ranges).end>> \o encode_ranges(Tail(ranges))

ack_encode(frame) ==
    <<frame.largest, frame.ack_delay_micros, MinNat(Len(frame.ranges), RANGE_COUNT_MAX)>>
        \o encode_ranges(frame.ranges)

\* AckFrame::decode: the frame, or the error it returns; the ranges are read
\* one by one, and the first one that is cut short or has start > end ends
\* the call
ack_decode(words) ==
    LET Bad(err) == [err |-> err, frame |-> AckFrame(0, 0, <<>>)] IN
    IF Len(words) < 3 THEN Bad("BufferTooSmall")
    ELSE
    LET largest == words[1]
        ack_delay_micros == words[2]
        range_count == words[3]
        Short(i) == Len(words) < 3 + 2 * i
        Failing == {i \in 1..range_count :
                       Short(i) \/ words[2 + 2 * i] > words[3 + 2 * i]}
        ranges == [i \in 1..range_count |-> AckRange(words[2 + 2 * i], words[3 + 2 * i])]
        sorted == sort_by_end_desc(ranges)
    IN
    IF Failing # {}
    THEN IF Short(SetMin(Failing)) THEN Bad("RangeCountMismatch") ELSE Bad("InvalidRange")
    ELSE IF range_count = 0 THEN Bad("EmptyHistory")
    ELSE IF sorted[1].end # largest THEN Bad("InvalidRange")
    ELSE [err |-> "Ok", frame |-> AckFrame(largest, ack_delay_micros, sorted)]

\* the length in bytes of a payload: the tag byte, then the message, or the
\* frame as AckFrame::encode writes it: 8 + 8 + 2 bytes, and 16 for each range
payload_len(payload) ==
    IF payload[1] = 1 THEN 1 + 18 + 8 * (Len(payload) - 4) ELSE Len(payload)

\* Endpoint::new.  The guard is verified and grants every send, and of the
\* congestion controller only the window is read, so the endpoint keeps the
\* controller's window and leaves the guard's and the controller's counters out.
EndpointNew ==
    [cipher |-> [send_packet_number |-> 0, highest_received |-> None],
     recv_history |-> ReceiveHistoryNew(DEFAULT_MAX_ACK_RANGES, 0),
     loss |-> LossManagerNew(EngineLossConfig),
     cc |-> CongestionControllerNew(CongestionConfigDefault),
     outbound |-> <<>>,
     outstanding |-> <<>>,
     received |-> {}]

\* Endpoint::enqueue_message
enqueue_message(e, data) ==
    [e EXCEPT !.outbound = Append(@, OutboundPacket(into_data_payload(data), TRUE))]

\* the packets reported lost go back to the front of the queue, one by one
RECURSIVE requeue_lost(_, _)
requeue_lost(e, lost) ==
    IF lost = <<>> THEN e
    ELSE LET pn == Head(lost).packet_number
             e1 == IF pn \in DOMAIN e.outstanding
                   THEN [e EXCEPT !.outbound = <<e.outstanding[pn]>> \o @,
                                  !.outstanding = MapRemove(@, pn)]
                   ELSE e
         IN requeue_lost(e1, Tail(lost))

\* self.outstanding.remove for every acknowledged packet
RECURSIVE forget_acked(_, _)
forget_acked(outstanding, acked) ==
    IF acked = <<>> THEN outstanding
    ELSE forget_acked(MapRemove(outstanding, Head(acked).packet_number), Tail(acked))

\* Endpoint::handle_data: the endpoint after the call and the packet returned
handle_data(e, now, payload, packet_number) ==
    LET e1 == [e EXCEPT !.received = @ \cup {Tail(payload)}]
        Built(r, b) ==
            IF r.immediate /\ b.frame.some
            THEN [e |-> [e1 EXCEPT !.recv_history = b.h],
                  reply |-> Some(OutboundPacket(<<1>> \o ack_encode(b.frame.v), FALSE))]
            ELSE [e |-> [e1 EXCEPT !.recv_history = r.h], reply |-> None]
        Recorded(r) == With(build_frame(r.h, now), LAMBDA b : Built(r, b))
    IN With(record(e.recv_history, packet_number, TRUE, now), Recorded)

\* Endpoint::handle_ack: the endpoint after the call; it returns no packet
handle_ack(e, now, payload) ==
    LET Acked(r) ==
            LET e1 == [e EXCEPT !.loss = r.l,
                                !.outstanding = forget_acked(@, r.outcome.acknowledged)]
                e2 == requeue_lost(e1, r.outcome.lost)
            IN [e |-> [e2 EXCEPT !.cc = on_ack_outcome(@, r.outcome, now)], reply |-> None]
        Decoded(frame) == With(on_ack_frame(e.loss, frame, now), Acked)
    IN With(ack_decode(Tail(payload)).frame, Decoded)

\* Endpoint::on_receive: the endpoint after the call and the packet returned
endpoint_on_receive(e, now, packet) ==
    IF replay_detected(e.cipher.highest_received, packet.pn)
    THEN [e |-> e, reply |-> None]
    ELSE LET e1 == [e EXCEPT !.cipher.highest_received =
                        Some(new_highest(e.cipher.highest_received, packet.pn))]
             payload == packet.payload
         IN IF payload # <<>> /\ payload[1] = 0
            THEN handle_data(e1, now, payload, packet.pn)
            ELSE IF payload # <<>> /\ payload[1] = 1
            THEN handle_ack(e1, now, payload)
            ELSE [e |-> e1, reply |-> None]

\* the test of the loop of Endpoint::tick: there is a packet at the front of
\* the queue, the window admits it and the guard grants it
tick_sends(e) ==
    /\ e.outbound # <<>>
    /\ ~(Head(e.outbound).ack_eliciting /\ SizeSum(e.loss.outstanding) >= e.cc.congestion_window)
    /\ try_consume(EngineAmp, payload_len(Head(e.outbound).payload)).ok

\* one turn of the loop of Endpoint::tick: the endpoint after it and the
\* packet handed to the link
tick_send(e, now, peer) ==
    LET packet == Head(e.outbound)
        pn == e.cipher.send_packet_number
        len == HEADER_SIZE + payload_len(packet.payload) + AEAD_TAG_LEN
        e1 == [e EXCEPT !.cipher.send_packet_number = pn + 1]
        stored == IF pn \in DOMAIN e.outstanding THEN <<e.outstanding[pn]>> ELSE <<>>
        e2 == IF packet.ack_eliciting
              THEN [e1 EXCEPT !.loss = on_packet_sent(@, pn, now, len, TRUE),
                              !.cc = controller_on_packet_sent(@, len),
                              !.outstanding = MapPut(@, pn, packet),
                              !.outbound = stored \o @]
              ELSE e1
    IN [e |-> [e2 EXCEPT !.outbound = Tail(@)],
        packet |-> [to |-> peer, pn |-> pn, payload |-> packet.payload, deliver_at |-> now]]

\* SimLink::new: nothing in flight; `dropped` counts the packets dropped
SimLinkNew == [in_flight |-> {}, dropped |-> 0]

\* SimLink::send: the generator drops the packet, or delays it by 1..delay_steps
\* steps.  Two packets of one run never agree in receiver and number, so the
\* packets in flight form a set.
link_send(l, now, packet, drop, jitter) ==
    IF drop THEN [l EXCEPT !.dropped = @ + 1]
    ELSE [l EXCEPT !.in_flight = @ \cup {[packet EXCEPT !.deliver_at = now + STEP * jitter]}]

\* SimLink::deliver: the packets that are due
ready(l, now) == {p \in l.in_flight : p.deliver_at <= now}

(***************************************************************************)
(* The state between two steps of the loop.  The engine reads its clock    *)
(* and its packet numbers only through differences and comparisons, so the *)
(* model keeps both relative: when the clock moves one step on, every      *)
(* stored time moves one step back, and the packet numbers of each         *)
(* direction are counted from the lowest number still in use (queued for   *)
(* a send, outstanding, or in flight), which becomes 1; every lower number *)
(* becomes 0.  A number below that floor is never sent, acknowledged or    *)
(* declared lost again; an ACK range wholly below it acknowledges nothing. *)
(* The time of the last ACK is kept no older than the longest delay an ACK *)
(* frame reports.  Of the congestion controller the window is kept.        *)
(***************************************************************************)
renumber(n, floor) == IF n < floor THEN 0 ELSE n - floor + 1
renumber_opt(o, floor) == IF o.some THEN Some(renumber(o.v, floor)) ELSE None

\* ranges are sorted by end, highest first: those below the floor are the last
renumber_ranges(ranges, floor) ==
    LET mapped == [i \in DOMAIN ranges |->
                      AckRange(renumber(ranges[i].start, floor), renumber(ranges[i].end, floor))]
        live == Cardinality({i \in DOMAIN ranges : mapped[i].end > 0})
    IN SubSeq(mapped, 1, MinNat(Len(ranges), live + 1))

renumber_payload(payload, floor) ==
    IF payload # <<>> /\ payload[1] = 1
    THEN LET frame == ack_decode(Tail(payload)).frame IN
         <<1>> \o ack_encode(AckFrame(renumber(frame.largest, floor), frame.ack_delay_micros,
                                      renumber_ranges(frame.ranges, floor)))
    ELSE payload

renumber_queue(outbound, floor) ==
    [i \in DOMAIN outbound |->
        [outbound[i] EXCEPT !.payload = renumber_payload(@, floor)]]

\* the lowest packet number in use among those the endpoint `from` has sealed
\* or will seal next for the endpoint with index `to`
number_floor(from, l, to) ==
    SetMin({from.cipher.send_packet_number}
           \cup {from.loss.outstanding[i].packet_number : i \in DOMAIN from.loss.outstanding}
           \cup DOMAIN from.outstanding
           \cup {p.pn : p \in {q \in l.in_flight : q.to = to}})

shift_time(t) == t - STEP
shift_opt(o) == IF o.some THEN Some(shift_time(o.v)) ELSE None
shift_opt_capped(o) == IF o.some THEN Some(MaxNat(shift_time(o.v), EngineNow - U64_MAX * STEP)) ELSE None

\* an endpoint one step later: its own numbers counted from `own`, its peer's
\* from `peer`
next_step_endpoint(e, own, peer) ==
    [cipher |-> [send_packet_number |-> renumber(e.cipher.send_packet_number, own),
                 highest_received |-> renumber_opt(e.cipher.highest_received, peer)],
     recv_history |-> [e.recv_history EXCEPT
                          !.ranges = renumber_ranges(@, peer),
                          !.last_ack_time = shift_opt_capped(@),
                          !.ack_request_time = shift_opt(@)],
     loss |-> [e.loss EXCEPT
                  !.outstanding = [i \in DOMAIN @ |->
                      [@[i] EXCEPT !.packet_number = renumber(@, own),
                                   !.time_sent = shift_time(@)]],
                  !.largest_acked = renumber_opt(@, own),
                  !.loss_time = shift_opt(@)],
     cc |-> [CongestionControllerNew(e.cc.config) EXCEPT
                !.congestion_window = e.cc.congestion_window],
     outbound |-> renumber_queue(e.outbound, peer),
     outstanding |-> [n \in {renumber(k, own) : k \in DOMAIN e.outstanding} |->
                         e.outstanding[n + own - 1]],
     received |-> e.received]

\* the link one step later
next_step_link(l, client_floor, server_floor) ==
    [l EXCEPT !.in_flight =
        {[to |-> p.to,
          pn |-> renumber(p.pn, IF p.to = ServerIdx THEN client_floor ELSE server_floor),
          payload |-> renumber_payload(p.payload,
                          IF p.to = ClientIdx THEN client_floor ELSE server_floor),
          deliver_at |-> shift_time(p.deliver_at)] : p \in l.in_flight}]

\* ---- the loop of packet_engine_survives_loss_and_reorder ----------------
\* what the link does with a packet handed to it: 0 drops it, j delays it j steps
LinkFates == 0..DelaySteps

InitEngine ==
    /\ enginePc = "client"
    /\ client = enqueue_message(enqueue_message(EndpointNew, <<1>>), <<2>>)
    /\ server = EndpointNew
    /\ link = SimLinkNew

\* one turn of the loop of client.tick(now, &mut link, 1)
ClientTick(fate) ==
    /\ enginePc = "client"
    /\ tick_sends(client)
    /\ fate = 0 => link.dropped < MaxDrops
    /\ \E t \in {tick_send(client, EngineNow, ServerIdx)} :
           /\ client' = t.e
           /\ link' = link_send(link, EngineNow, t.packet, fate = 0, fate)
    /\ UNCHANGED <<enginePc, server>>
    /\ UNCHANGED notEngine

\* client.tick returns
ClientTickEnd ==
    /\ enginePc = "client"
    /\ ~tick_sends(client)
    /\ enginePc' = "server"
    /\ UNCHANGED <<client, server, link>>
    /\ UNCHANGED notEngine

\* one turn of the loop of server.tick(now, &mut link, 0)
ServerTick(fate) ==
    /\ enginePc = "server"
    /\ tick_sends(server)
    /\ fate = 0 => link.dropped < MaxDrops
    /\ \E t \in {tick_send(server, EngineNow, ClientIdx)} :
           /\ server' = t.e
           /\ link' = link_send(link, EngineNow, t.packet, fate = 0, fate)
    /\ UNCHANGED <<enginePc, client>>
    /\ UNCHANGED notEngine

\* server.tick returns
ServerTickEnd ==
    /\ enginePc = "server"
    /\ ~tick_sends(server)
    /\ enginePc' = "deliver"
    /\ UNCHANGED <<client, server, link>>
    /\ UNCHANGED notEngine

\* link.deliver hands one of the packets that are due to its receiver, in the
\* order the generator gives them; a packet returned goes to the back of the queue
Deliver(to, pn) ==
    /\ enginePc = "deliver"
    /\ \E p \in ready(link, EngineNow) :
           /\ p.to = to /\ p.pn = pn
           /\ link' = [link EXCEPT !.in_flight = @ \ {p}]
           /\ \E r \in {endpoint_on_receive(IF to = ClientIdx THEN client ELSE server,
                                            EngineNow, p)} :
                  \E after \in {IF r.reply.some
                                 THEN [r.e EXCEPT !.outbound = Append(@, r.reply.v)]
                                 ELSE r.e} :
                      IF to = ClientIdx
                      THEN client' = after /\ UNCHANGED server
                      ELSE server' = after /\ UNCHANGED client
    /\ UNCHANGED enginePc
    /\ UNCHANGED notEngine

\* link.deliver returns
DeliverEnd ==
    /\ enginePc = "deliver"
    /\ ready(link, EngineNow) = {}
    /\ enginePc' = "timeout"
    /\ UNCHANGED <<client, server, link>>
    /\ UNCHANGED notEngine

\* the client after the loss timer of the loop has been served
after_loss_timer(e, now) ==
    IF e.loss.loss_time.some /\ e.loss.loss_time.v <= now
    THEN With(on_loss_timeout(e.loss, now),
              LAMBDA r : requeue_lost([e EXCEPT !.loss = r.l], r.lost))
    ELSE e

\* the end of a step: the loss timer is served and the clock moves one step
\* on.  The exit test (everything received, nothing queued, nothing
\* outstanding) only ends the loop; here the loop runs on, and an engine that
\* meets the test keeps meeting it.
StepEnd ==
    /\ enginePc = "timeout"
    /\ \E timed \in {after_loss_timer(client, EngineNow)} :
           \E client_floor \in {number_floor(timed, link, ServerIdx)},
              server_floor \in {number_floor(server, link, ClientIdx)} :
               /\ client' = next_step_endpoint(timed, client_floor, server_floor)
               /\ server' = next_step_endpoint(server, server_floor, client_floor)
               /\ link' = next_step_link(link, client_floor, server_floor)
    /\ enginePc' = "client"
    /\ UNCHANGED notEngine

\* the packet numbers in use stay below the greatest number of the model
EngineNumbersFit ==
    /\ client.cipher.send_packet_number < U64_MAX
    /\ server.cipher.send_packet_number < U64_MAX

NextEngine ==
    \/ \E fate \in LinkFates : ClientTick(fate)
    \/ ClientTickEnd
    \/ \E fate \in LinkFates : ServerTick(fate)
    \/ ServerTickEnd
    \/ \E to \in {ClientIdx, ServerIdx}, pn \in 0..U64_MAX : Deliver(to, pn)
    \/ DeliverEnd
    \/ StepEnd

(***************************************************************************)
(* AckFrame codec (ack.rs): AckFrame::new, encode and decode on their own  *)
(***************************************************************************)
\* most ranges handed to AckFrame::new, one more than the count can name
MaxFrameRanges == 4
\* the packet numbers of the ranges handed to AckFrame::new
FrameNumbers == 0..2
FrameRanges == {r \in [start : FrameNumbers, end : FrameNumbers] : r.start <= r.end}
RECURSIVE SeqsUpTo(_, _)
\* the sequences over S of length 0..n
SeqsUpTo(S, n) ==
    IF n = 0 THEN {<<>>}
    ELSE LET shorter == SeqsUpTo(S, n - 1) IN
         shorter \cup {Append(q, x) : q \in {r \in shorter : Len(r) = n - 1}, x \in S}
FrameDelays == {0, 3 * MICROSECOND}

NoFrame == [err |-> "none", frame |-> AckFrame(0, 0, <<>>)]
NoFrameRes == [made |-> NoFrame, words |-> <<>>, encoded |-> FALSE, decoded |-> NoFrame]

InitFrame ==
    /\ frameIn \in [largest : FrameNumbers, ack_delay : FrameDelays,
                     ranges : SeqsUpTo(FrameRanges, MaxFrameRanges)]
    /\ frameRes = NoFrameRes

\* AckFrame::new(largest, ack_delay, ranges)
FrameNew ==
    /\ frameRes.made = NoFrame
    /\ frameRes' = [frameRes EXCEPT
           !.made = AckFrameNew(frameIn.largest, frameIn.ack_delay, frameIn.ranges)]
    /\ UNCHANGED frameIn
    /\ UNCHANGED notFrame

\* frame.encode(&mut buf)
FrameEncode ==
    /\ frameRes.made.err = "Ok"
    /\ ~frameRes.encoded
    /\ frameRes' = [frameRes EXCEPT !.words = ack_encode(frameRes.made.frame),
                                    !.encoded = TRUE]
    /\ UNCHANGED frameIn
    /\ UNCHANGED notFrame

\* AckFrame::decode(&buf)
FrameDecode ==
    /\ frameRes.encoded
    /\ frameRes.decoded = NoFrame
    /\ frameRes' = [frameRes EXCEPT !.decoded = ack_decode(frameRes.words)]
    /\ UNCHANGED frameIn
    /\ UNCHANGED notFrame

NextFrame == FrameNew \/ FrameEncode \/ FrameDecode

(***************************************************************************)
(* AntiReplayStore (handshake.rs) on its own                               *)
(***************************************************************************)
\* record calls in one run, and the seconds the store's clock runs
MaxReplayCalls == 5
MaxReplayTime == 4
\* the message payloads recorded, the capacities and the TTLs in seconds
ReplayPayloads == {<<1>>, <<2>>, <<3>>}
ReplayCapacities == {0, 1, 2}
ReplayTtls == {1, 2}

NoReplayCall == [op |-> "new", entry |-> <<>>, now |-> 0, before |-> <<>>, ok |-> TRUE]

InitReplay ==
    /\ \E capacity \in ReplayCapacities, ttl \in ReplayTtls :
           replayStore = AntiReplayStoreNew(capacity, ttl)
    /\ replayClock = 0
    /\ replayLog = <<>>
    /\ replayRes = NoReplayCall

\* store.record(payload)
ReplayRecord(payload) ==
    /\ Len(replayLog) < MaxReplayCalls
    /\ \E r \in {anti_replay_record(replayStore, payload, replayClock)} :
          /\ replayStore' = r.replay
          /\ replayLog' = IF r.ok
                          THEN Append(replayLog, [entry |-> payload,
                                                  timestamp |-> replayClock])
                          ELSE replayLog
          /\ replayRes' = [op |-> "record", entry |-> payload, now |-> replayClock,
                           before |-> replayLog, ok |-> r.ok]
    /\ UNCHANGED replayClock
    /\ UNCHANGED notReplay

\* a second passes
ReplayTime ==
    /\ replayClock < MaxReplayTime
    /\ replayClock' = replayClock + 1
    /\ UNCHANGED <<replayStore, replayLog, replayRes>>
    /\ UNCHANGED notReplay

NextReplay ==
    \/ \E payload \in ReplayPayloads : ReplayRecord(payload)
    \/ ReplayTime

(***************************************************************************)
(* Specifications                                                          *)
(***************************************************************************)
RecvIdle ==
    /\ recv = RecvBufferDefault
    /\ delivered = <<>>
    /\ ingested = {}
    /\ recvRes = [err |-> "Ok", offset |-> 0]

CipherIdle ==
    /\ ciphers = [client |-> PacketCipherNew(ClientKeys),
                  server |-> PacketCipherNew(Mirrored(ClientKeys))]
    /\ wire = {}
    /\ accepted = {}
    /\ sealRes = NoSeal
    /\ openRes = NoOpen

WindowIdle ==
    /\ win = FlowWindowNew(0)
    /\ winRes = NoWindowCall

FlowIdle ==
    /\ fc = FlowControllerNew(0)
    /\ fcTotals = [id \in StreamIds |-> 0]
    /\ fcRes = FlowOk

MgrIdle ==
    /\ mgr = StreamManagerNew
    /\ mgrSent = [id \in StreamIds |-> <<>>]
    /\ mgrLimits = NoLimits
    /\ mgrRes = NoManagerCall

LossIdle ==
    /\ loss = LossManagerNew(LossConfig)
    /\ clock = 0
    /\ sentLog = <<>>
    /\ ackedLog = {}
    /\ lostLog = {}
    /\ reports = 0

HistIdle ==
    /\ hist = ReceiveHistoryNew(DEFAULT_MAX_ACK_RANGES, 0)
    /\ recorded = {}
    /\ exceeded = FALSE
    /\ histRes = NoHistCall

DataIdle == RecvIdle /\ CipherIdle /\ WindowIdle /\ FlowIdle /\ MgrIdle /\ LossIdle
TicketIdle ==
    /\ ticketMgr = SessionTicketManagerNew(Tick, 1)
    /\ ticketClock = 0
    /\ issuedLog = <<>>
    /\ ticketRes = NoTicketCall

AmpIdle ==
    /\ amp = AntiAmplificationGuardNew(AmplificationConfig(0, 0))
    /\ ampTotals = [received |-> 0, sent |-> 0, calls |-> 0]
    /\ ampRes = [op |-> "new", bytes |-> 0, ok |-> TRUE, before |-> amp]

CcIdle ==
    /\ cc = CongestionControllerNew(CongestionConfigDefault)
    /\ ccCalls = 0

ControlIdle == HistIdle /\ TicketIdle /\ AmpIdle /\ CcIdle

HsIdle ==
    /\ initiator = InitiatorNew(fixed_private(16), public_key(fixed_private(64)))
    /\ responder = ResponderNew(fixed_private(64), NoKey)
    /\ hsClock = 0
    /\ hsWire = <<>>
    /\ initRes = NoHsCall
    /\ respRes = NoHsCall
    /\ hsHist = [initStages |-> <<"Ready">>, respStages |-> <<"Ready">>,
                 initFailed |-> FALSE, respFailed |-> FALSE,
                 initKeys |-> 0, respKeys |-> 0, calls |-> 0,
                 initSession |-> NoKeys, respSession |-> NoKeys,
                 initFinish |-> NoMessage, respFinish |-> NoMessage,
                 genuine |-> TRUE]

EngineIdle ==
    /\ enginePc = "client"
    /\ client = EndpointNew
    /\ server = EndpointNew
    /\ link = SimLinkNew

SessionIdle == HsIdle /\ EngineIdle

StreamIdle ==
    /\ stream = StreamNew
    /\ streamLog = NoStreamLog
    /\ streamRes = NoStreamCall
    /\ ingestLog = NoIngestLog
    /\ ingestRes = NoIngestCall

SchedIdle ==
    /\ sched = SchedulerNew
    /\ schedLog = NoSchedLog
    /\ schedRes = NoSchedCall

DgramIdle ==
    /\ dgQueue = DatagramQueueNew([max_payload |-> 1, max_queue |-> 1])
    /\ dgGuard = AntiAmplificationGuardNew(AmplificationConfig(1, 0))
    /\ dgLog = NoDgLog
    /\ dgRes = NoDgCall(dgQueue, dgGuard)

PoolIdle ==
    /\ pool = BufferPoolNew(BufferSize, 1)
    /\ poolThreads = [t \in PoolThreads |-> ThreadNew]
    /\ poolLog = [allocated |-> 1, acquires |-> 0, written |-> {}]

FrameIdle ==
    /\ frameIn = [largest |-> 0, ack_delay |-> 0, ranges |-> <<>>]
    /\ frameRes = NoFrameRes

LifeIdle == mgrAcked = NoneAcked

ReplayIdle ==
    /\ replayStore = AntiReplayStoreNew(0, 0)
    /\ replayClock = 0
    /\ replayLog = <<>>
    /\ replayRes = NoReplayCall

UnitIdle == StreamIdle /\ SchedIdle /\ DgramIdle /\ PoolIdle /\ FrameIdle /\ LifeIdle /\ ReplayIdle

StartRecv == InitRecv /\ CipherIdle /\ WindowIdle /\ FlowIdle /\ MgrIdle /\ LossIdle /\ ControlIdle /\ SessionIdle /\ UnitIdle
SpecRecv == StartRecv /\ [][NextRecv]_vars

StartCipher == InitCipher /\ RecvIdle /\ WindowIdle /\ FlowIdle /\ MgrIdle /\ LossIdle /\ ControlIdle /\ SessionIdle /\ UnitIdle
SpecCipher == StartCipher /\ [][NextCipher]_vars

StartWindow == InitWindow /\ RecvIdle /\ CipherIdle /\ FlowIdle /\ MgrIdle /\ LossIdle /\ ControlIdle /\ SessionIdle /\ UnitIdle
SpecWindow == StartWindow /\ [][NextWindow]_vars

StartFlow == InitFlow /\ RecvIdle /\ CipherIdle /\ WindowIdle /\ MgrIdle /\ LossIdle /\ ControlIdle /\ SessionIdle /\ UnitIdle
SpecFlow == StartFlow /\ [][NextFlow]_vars

StartMgr == InitMgr /\ RecvIdle /\ CipherIdle /\ WindowIdle /\ FlowIdle /\ LossIdle /\ ControlIdle /\ SessionIdle /\ UnitIdle
SpecMgr == StartMgr /\ [][NextMgr]_vars

StartLoss == InitLoss /\ RecvIdle /\ CipherIdle /\ WindowIdle /\ FlowIdle /\ MgrIdle /\ ControlIdle /\ SessionIdle /\ UnitIdle
SpecLoss == StartLoss /\ [][NextLoss]_vars

StartHist == InitHist /\ DataIdle /\ TicketIdle /\ AmpIdle /\ CcIdle /\ SessionIdle /\ UnitIdle
SpecHist == StartHist /\ [][NextHist]_vars

StartTicket == InitTicket /\ DataIdle /\ HistIdle /\ AmpIdle /\ CcIdle /\ SessionIdle /\ UnitIdle
SpecTicket == StartTicket /\ [][NextTicket]_vars

StartAmp == InitAmp /\ DataIdle /\ HistIdle /\ TicketIdle /\ CcIdle /\ SessionIdle /\ UnitIdle
SpecAmp == StartAmp /\ [][NextAmp]_vars

StartCc == InitCc /\ DataIdle /\ HistIdle /\ TicketIdle /\ AmpIdle /\ SessionIdle /\ UnitIdle
SpecCc == StartCc /\ [][NextCc]_vars

StartCong ==
    /\ InitCong
    /\ RecvIdle /\ CipherIdle /\ WindowIdle /\ FlowIdle /\ MgrIdle
    /\ HistIdle /\ TicketIdle /\ AmpIdle /\ SessionIdle /\ UnitIdle
SpecCong == StartCong /\ [][NextCong]_vars

StartHs == InitHs /\ DataIdle /\ ControlIdle /\ EngineIdle /\ UnitIdle
SpecHs == StartHs /\ [][NextHs]_vars

StartEngine == InitEngine /\ DataIdle /\ ControlIdle /\ HsIdle /\ UnitIdle
SpecEngine == StartEngine /\ [][NextEngine]_vars
\* the loop of the test runs on: whenever it can take a step it takes one
SpecEngineLive == SpecEngine /\ WF_vars(NextEngine)

StartSend == InitSend /\ DataIdle /\ ControlIdle /\ SessionIdle /\ SchedIdle /\ DgramIdle /\ PoolIdle /\ FrameIdle /\ LifeIdle /\ ReplayIdle
SpecSend == StartSend /\ [][NextSend]_vars

StartStreamRecv == InitStreamRecv /\ DataIdle /\ ControlIdle /\ SessionIdle /\ SchedIdle /\ DgramIdle /\ PoolIdle /\ FrameIdle /\ LifeIdle /\ ReplayIdle
SpecCut == StartStreamRecv /\ [][NextCut]_vars
SpecIngest == StartStreamRecv /\ [][NextIngest]_vars

StartSched == InitSched /\ DataIdle /\ ControlIdle /\ SessionIdle /\ StreamIdle /\ DgramIdle /\ PoolIdle /\ FrameIdle /\ LifeIdle /\ ReplayIdle
SpecSched == StartSched /\ [][NextSched]_vars
StartDgram == InitDgram /\ DataIdle /\ ControlIdle /\ SessionIdle /\ StreamIdle /\ SchedIdle /\ PoolIdle /\ FrameIdle /\ LifeIdle /\ ReplayIdle
SpecDgram == StartDgram /\ [][NextDgram]_vars

StartPool == InitPool /\ DataIdle /\ ControlIdle /\ SessionIdle /\ StreamIdle /\ SchedIdle /\ DgramIdle /\ FrameIdle /\ LifeIdle /\ ReplayIdle
SpecPool == StartPool /\ [][NextPool]_vars

StartFrame == InitFrame /\ DataIdle /\ ControlIdle /\ SessionIdle /\ StreamIdle /\ SchedIdle /\ DgramIdle /\ PoolIdle /\ LifeIdle /\ ReplayIdle
SpecFrame == StartFrame /\ [][NextFrame]_vars

SpecLife == StartMgr /\ [][NextLife]_vars
\* the endpoint goes on calling the manager, and the peer goes on
\* acknowledging, while a call or an acknowledgement would change something
SpecLifeLive == SpecLife /\ WF_vars(NextLife)

SpecRtt == StartLoss /\ [][NextRtt]_vars

SpecCredit == StartMgr /\ [][NextCredit]_vars

StartReplay == InitReplay /\ DataIdle /\ ControlIdle /\ SessionIdle /\ StreamIdle /\ SchedIdle /\ DgramIdle /\ PoolIdle /\ FrameIdle /\ LifeIdle
SpecReplay == StartReplay /\ [][NextReplay]_vars

\* the sender keeps popping while streams are queued
SpecSchedLive == SpecSched /\ WF_vars(PopStream /\ has_streams(sched))

(***************************************************************************)
(* Claims about the receive buffer                                         *)
(***************************************************************************)
\* every offset of S has been carried by a successful ingest call
AllIngested == ingested = 0..(StreamLen - 1)

\* C1: once successful ingest calls have carried every byte of S (in any
\* order, with duplicates and different splits, all agreeing with S), all of
\* S is readable: what read has returned followed by what is ready is S.
C1_AllIngestedReadable ==
    AllIngested => delivered \o recv.ready = StreamS

\* C2: what read has returned so far is a prefix of S (in order, no gap,
\* no byte twice) and delivered_offset counts the bytes returned.
C2_DeliveredIsPrefix ==
    /\ IsPrefix(delivered, StreamS)
    /\ recv.delivered_offset = Len(delivered)

\* C2 witness: bytes were read while a duplicate of an already promoted
\* chunk and a later chunk are both pending
C2_Witness ==
    /\ Len(delivered) >= 2
    /\ \E o \in DOMAIN recv.pending : o < recv.delivered_offset
    /\ \E o \in DOMAIN recv.pending : o >= recv.delivered_offset

(***************************************************************************)
(* PacketCipher claims (SpecCipher)                                        *)
(***************************************************************************)
\* the packet number is above the server's high-water mark
Fresh(pn) == ~replay_detected(ciphers.server.highest_received, pn)

\* open by the server, as it stands, of sealed packet w gives back what was sealed
OpensTo(w) ==
    LET r == open(ciphers.server, w.packet).res IN
    /\ r.err = "Ok"
    /\ r.payload = w.payload
    /\ r.header.conn_id = w.conn_id
    /\ r.header.packet_number = w.pn
    /\ r.header.flags = w.flags
    /\ r.header.payload_len = Len(w.payload) + AEAD_TAG_LEN

\* C3: a packet open has accepted is refused with ReplayDetected{its number,
\* the high-water mark} by every later open, whatever was opened in between;
\* accepted packet numbers strictly increase in acceptance order;
\* highest_received is the largest accepted number and never decreases.
C3_ReplayRejected ==
    /\ \A a \in accepted :
          open(ciphers.server, a.packet).res =
              Failure("ReplayDetected", a.pn, ciphers.server.highest_received.v)
    /\ \A a, b \in accepted : a.seq < b.seq => a.pn < b.pn
    /\ accepted # {} =>
          ciphers.server.highest_received = Some(SetMax({a.pn : a \in accepted}))
    /\ openRes.before.highest_received.some =>
          /\ openRes.after.highest_received.some
          /\ openRes.after.highest_received.v >= openRes.before.highest_received.v

\* two packets accepted, and the last open was a replay of the first of them
C3_Witness ==
    /\ Cardinality(accepted) >= 2
    /\ openRes.res.err = "ReplayDetected"
    /\ \E a \in accepted : a.seq = 0 /\ a.packet = openRes.packet
                           /\ a.pn < ciphers.server.highest_received.v

\* C4 (as stated): every sealed packet the server has not accepted yet is
\* opened by the server to the sealed plaintext and header fields.
C4_EverySealedOpens ==
    \A w \in wire : (\A a \in accepted : a.packet # w.packet) => OpensTo(w)

\* C4 (amended): every sealed packet whose number is above the server's
\* high-water mark is opened by the server to exactly the sealed plaintext,
\* conn_id, packet number, flags and payload length.
C4_FreshSealedOpens ==
    \A w \in wire : Fresh(w.pn) => OpensTo(w)

\* the server accepted an intact sealed packet with a payload and a flag set,
\* after it had accepted another
C4_Witness ==
    /\ openRes.res.err = "Ok"
    /\ openRes.res.payload = <<104, 112>>
    /\ openRes.res.header.flags = ACK_ELICITING
    /\ openRes.before.highest_received.some
    /\ \E w \in wire : w.packet = openRes.packet

\* C5: successful seal_into calls return strictly increasing packet numbers,
\* each one more than the previous.
C5_SealNumbersIncrease ==
    \A a, b \in wire : b.seq = a.seq + 1 => b.pn = a.pn + 1

\* C6: an open that fails leaves the cipher as it was, and every authentic
\* packet above the high-water mark is still accepted afterwards.
C6_FailedOpenKeepsState ==
    openRes.res.err \notin {"Ok", "None"} =>
        /\ openRes.after = openRes.before
        /\ ciphers.server = openRes.before
        /\ \A w \in wire : Fresh(w.pn) => OpensTo(w)

\* an altered packet number failed authentication while an authentic packet
\* above the high-water mark waits
C6_Witness ==
    /\ openRes.res.err = "AuthenticationFailed"
    /\ \E w \in wire : Fresh(w.pn) /\ openRes.packet = Tamper(w.packet, "packet_number")


(***************************************************************************)
(* Flow-control claims (SpecMgr, SpecFlow, SpecWindow)                     *)
(***************************************************************************)
\* C7: once limits are set on the manager, the payload bytes poll_send_chunk
\* returned for a stream never exceed the stream's limit, the bytes
\* returned over all streams never exceed the connection limit, and a
\* stream whose limit is used up has allowance 0 and polls None.
C7_SentWithinLimits ==
    /\ \A id \in StreamIds : mgrLimits.streams[id].some =>
          /\ Len(mgrSent[id]) <= mgrLimits.streams[id].v
          /\ Len(mgrSent[id]) = mgrLimits.streams[id].v =>
                /\ stream_send_allowance(mgr, id) = 0
                /\ poll_send_chunk(mgr, id, MaxPoll).chunk = NoChunk
    /\ mgrLimits.connection.some => TotalSent <= mgrLimits.connection.v

\* C8: the amounts consumed successfully for a stream sum to at most the
\* stream's limit, and over all streams to at most the connection limit.
C8_ConsumedWithinLimits ==
    /\ \A id \in DOMAIN fc.streams : fcTotals[id] <= fc.streams[id].max_data
    /\ SumOver(fcTotals, StreamIds) <= fc.connection.max_data

\* C9: consumed <= max_data; max_data never decreases and update_limit
\* ignores a value not above it; consume(n) fails with
\* SendWindowExceeded{available, attempted: n} exactly when
\* n > max_data - consumed, and then leaves the window as it was.
C9_WindowKeepsLimit ==
    /\ win.consumed <= win.max_data
    /\ win.max_data >= winRes.before.max_data
    /\ winRes.op = "update_limit" =>
          /\ win.max_data = MaxNat(winRes.before.max_data, winRes.arg)
          /\ win.consumed = winRes.before.consumed
          /\ winRes.arg <= winRes.before.max_data => win = winRes.before
    /\ winRes.op = "consume" =>
          LET room == winRes.before.max_data - winRes.before.consumed IN
          /\ winRes.res.err = "SendWindowExceeded" <=> winRes.arg > room
          /\ winRes.res.err = "SendWindowExceeded" =>
                /\ winRes.res = SendWindowExceeded(room, winRes.arg)
                /\ win = winRes.before
          /\ winRes.res.err = "Ok" =>
                win = [winRes.before EXCEPT !.consumed = winRes.before.consumed + winRes.arg]

\* a partly used window refused an amount above what is left of it
C9_Witness ==
    /\ winRes.op = "consume"
    /\ winRes.res.err = "SendWindowExceeded"
    /\ winRes.before.consumed > 0
    /\ winRes.res.available > 0
    /\ win.max_data < U64_MAX


(***************************************************************************)
(* LossManager claims (SpecLoss)                                           *)
(***************************************************************************)
\* how often record rec sits in the outstanding queue
TimesOutstanding(rec) ==
    Cardinality({j \in DOMAIN loss.outstanding : loss.outstanding[j] = rec})
\* in how many ways record rec was reported
TimesReported(rec) ==
    Cardinality({x \in ackedLog : x.info = rec}) + Cardinality({x \in lostLog : x.info = rec})
\* the place of record rec in the order of sending
SendIndex(rec) == CHOOSE i \in DOMAIN sentLog : sentLog[i] = rec

\* C10: every record passed to on_packet_sent is either still outstanding,
\* or was reported acknowledged once, or was reported lost once, never two
\* of these; nothing else is outstanding or reported; the outstanding
\* records are in send order.
C10_EachRecordInOnePlace ==
    /\ \A i \in DOMAIN sentLog :
          TimesOutstanding(sentLog[i]) + TimesReported(sentLog[i]) = 1
    /\ reports = Cardinality(ackedLog) + Cardinality(lostLog)
    /\ \A j \in DOMAIN loss.outstanding :
          \E i \in DOMAIN sentLog : sentLog[i] = loss.outstanding[j]
    /\ \A x \in ackedLog \cup lostLog : \E i \in DOMAIN sentLog : sentLog[i] = x.info
    /\ \A j, k \in DOMAIN loss.outstanding :
          j < k => SendIndex(loss.outstanding[j]) < SendIndex(loss.outstanding[k])

\* of three packets one was acknowledged, one declared lost by on_ack_frame
\* and one by on_loss_timeout
C10_Witness ==
    /\ ackedLog # {}
    /\ \E x \in lostLog : x.via = "ack"
    /\ \E x \in lostLog : x.via = "timeout"

(***************************************************************************)
(* Claims about the receive history                                        *)
(***************************************************************************)
\* the last call was a build_frame that returned a frame
FrameBuilt == histRes.op = "build_frame" /\ histRes.frame.some

\* C12: after any sequence of record calls, in any order, every stored range
\* has start <= end, the ranges are strictly descending with a gap of at least
\* one packet number between neighbours, there are at most max_ranges of them,
\* and a frame built from them carries them with largest = ranges[0].end.
C12_RangesWellFormed ==
    LET r == hist.ranges IN
    /\ \A i \in DOMAIN r : r[i].start <= r[i].end
    /\ \A i \in 1..(Len(r) - 1) : r[i + 1].end + 1 < r[i].start
    /\ Len(r) <= hist.max_ranges
    /\ histRes.err = "Ok"
    /\ FrameBuilt => /\ histRes.frame.v.ranges = r
                     /\ histRes.frame.v.largest = r[1].end

\* a frame of two ranges built from a history that has dropped a range
C12_Witness ==
    /\ FrameBuilt
    /\ exceeded
    /\ Len(histRes.frame.v.ranges) = 2
    /\ hist.max_ranges = 2

\* C13: the packet numbers covered by the ranges of build_frame are always
\* recorded ones, and as long as the recorded numbers never formed more runs
\* than max_ranges the ranges are exactly the maximal runs of the recorded
\* set, whatever the order of the record calls.
C13_CoversRecorded ==
    /\ Covered(hist.ranges) \subseteq recorded
    /\ ~exceeded => hist.ranges = RunsOf(recorded)
    /\ FrameBuilt => /\ Covered(histRes.frame.v.ranges) \subseteq recorded
                     /\ ~exceeded => Covered(histRes.frame.v.ranges) = recorded

\* four adjacent numbers recorded, reported as one range by build_frame
C13_Witness ==
    /\ FrameBuilt
    /\ ~exceeded
    /\ recorded = 0..3
    /\ histRes.frame.v.ranges = <<AckRange(0, 3)>>
    /\ histRes.frame.v.largest = 3

(***************************************************************************)
(* Claims about the session ticket store                                   *)
(***************************************************************************)
\* the seed derives, under the counter the ticket was issued with, the
\* ticket's secret
DerivesSecretOf(entry, seed) ==
    derive_material([ticketMgr EXCEPT !.counter = issuedLog[entry].counter], seed).secret
        = issuedLog[entry].ticket.secret

\* C14: resume(ticket.id, seed') returns the issued ticket exactly when the
\* ticket is still stored, has not expired and seed' derives the same secret
\* as the issuing seed, however many tickets were issued in between.
C14_ResumeIffValid ==
    ticketRes.op = "resume" =>
        LET issued == issuedLog[ticketRes.entry].ticket IN
        (ticketRes.some /\ ticketRes.ticket = issued)
            <=> /\ ticketRes.stored
                /\ is_valid(issued, ticketRes.now)
                /\ DerivesSecretOf(ticketRes.entry, ticketRes.seed)

(***************************************************************************)
(* Claims about the anti-amplification guard                               *)
(***************************************************************************)
\* C15: while the guard is unverified the bytes granted by try_consume total
\* at most factor x bytes received + initial_allowance; try_consume(n) grants
\* exactly when n is within the remaining budget, a refused call changes
\* neither counter, and once verified every try_consume is granted and the
\* guard stays verified.
C15_BudgetBoundsSent ==
    /\ ~amp.verified =>
           ampTotals.sent <= amp.config.factor * ampTotals.received
                                 + amp.config.initial_allowance
    /\ ampRes.before.verified => amp.verified
    /\ ampRes.op = "try_consume" =>
           /\ ampRes.ok <=> (ampRes.before.verified
                                \/ ampRes.bytes <= available_budget(ampRes.before))
           /\ ~ampRes.ok => amp = ampRes.before
           /\ ampRes.ok => /\ amp.received = ampRes.before.received
                           /\ amp.sent = saturating_add(ampRes.before.sent, ampRes.bytes)

\* an unverified guard that has received bytes, has granted bytes, and has
\* just refused a call with a budget left that a smaller call would fit
C15_Witness ==
    /\ ~amp.verified
    /\ ampRes.op = "try_consume"
    /\ ~ampRes.ok
    /\ ampTotals.received > 0
    /\ ampTotals.sent > 0
    /\ available_budget(amp) > 0

(***************************************************************************)
(* Claims about the congestion controller                                  *)
(***************************************************************************)
\* C16: in every state of a controller, from construction on, min_window <=
\* congestion_window <= max_window and min_pacing_rate <= pacing_rate <=
\* max_pacing_rate.
C16_WindowAndRateInBounds ==
    /\ cc.config.min_window <= cc.congestion_window
    /\ cc.congestion_window <= cc.config.max_window
    /\ cc.config.min_pacing_rate <= cc.pacing_rate
    /\ cc.pacing_rate <= cc.config.max_pacing_rate

\* the configurations whose bounds are in order and hold the initial window
OrderedConfig ==
    /\ cc.config.min_window <= cc.config.initial_window
    /\ cc.config.initial_window <= cc.config.max_window
    /\ cc.config.min_pacing_rate <= cc.config.max_pacing_rate

\* the bounds of C16 for the controllers built from an ordered configuration
C16_InBoundsIfOrdered == OrderedConfig => C16_WindowAndRateInBounds

\* the bytes in flight: the sizes of the packets sent and reported neither
\* acknowledged nor lost
BytesInFlight ==
    LET Reported == {e.info : e \in ackedLog \cup lostLog}
        Flying(info) == info \notin Reported
    IN SizeSum(SelectSeq(sentLog, Flying))

\* C17: when every sent packet is passed to on_packet_sent and every
\* AckOutcome of the loss manager to on_ack_outcome, inflight_bytes never
\* exceeds the total size of the packets sent and neither acknowledged nor
\* declared lost.
C17_InflightIsLowerBound == cc.inflight_bytes <= BytesInFlight

\* C18: the initiator's stage only moves Ready -> AwaitingResponse -> Complete.
\* Every call leaves the stage alone or takes one of these two steps,
\* initiate changes the initiator only when it is Ready, handle_response
\* returns Ok only in AwaitingResponse on a ResponderHello, and no call
\* changes an initiator that is Complete.
C18_InitiatorStagesForward ==
    /\ \/ initRes.stage_after = initRes.stage_before
       \/ <<initRes.stage_before, initRes.stage_after>>
              \in {<<"Ready", "AwaitingResponse">>, <<"AwaitingResponse", "Complete">>}
    /\ (initRes.op = "initiate" /\ initRes.changed) => initRes.stage_before = "Ready"
    /\ (initRes.op = "handle_response" /\ initRes.ok) =>
           /\ initRes.stage_before = "AwaitingResponse"
           /\ initRes.kind = "ResponderHello"
    /\ initRes.stage_before = "Complete" => ~initRes.changed

\* C19: the responder's stage only moves Ready -> AwaitingFinal -> Complete.
\* handle_initiator_hello returns Ok only in Ready on an InitiatorHello,
\* handle_initiator_finish only in AwaitingFinal on an InitiatorFinish, every
\* other pair of stage and kind is UnexpectedMessage, a Complete responder
\* accepts nothing, and session keys and a ticket are issued at most once.
C19_ResponderStagesForward ==
    LET Expected(op) == IF op = "handle_initiator_hello"
                        THEN <<"Ready", "InitiatorHello">>
                        ELSE <<"AwaitingFinal", "InitiatorFinish">>
    IN /\ hsHist.respStages \in {<<"Ready">>, <<"Ready", "AwaitingFinal">>,
                                 <<"Ready", "AwaitingFinal", "Complete">>}
       /\ respRes.op # "none" =>
             /\ respRes.ok => <<respRes.stage_before, respRes.kind>> = Expected(respRes.op)
             /\ <<respRes.stage_before, respRes.kind>> # Expected(respRes.op) =>
                    ~respRes.ok /\ respRes.err = "UnexpectedMessage"
             /\ respRes.stage_before = "Complete" => ~respRes.ok /\ ~respRes.changed
       /\ hsHist.respKeys <= 1
       /\ responder.tickets.counter <= 1
       /\ Len(responder.tickets.order) <= 1

\* a Complete responder that issued its keys turned a second InitiatorFinish away
C19_Witness ==
    /\ respRes.op = "handle_initiator_finish"
    /\ respRes.kind = "InitiatorFinish"
    /\ respRes.stage_before = "Complete"
    /\ respRes.err = "UnexpectedMessage"
    /\ hsHist.respKeys = 1
    /\ Len(responder.tickets.order) = 1

\* C20: once a step of an Initiator or of a Responder has returned an error,
\* no later call on that object yields session keys or brings it to Complete.
C20_ErrorsAreFinal ==
    /\ initRes.failed_before =>
           /\ ~initRes.keys
           /\ initRes.stage_after = "Complete" => initRes.stage_before = "Complete"
    /\ respRes.failed_before =>
           /\ ~respRes.keys
           /\ respRes.stage_after = "Complete" => respRes.stage_before = "Complete"

ExchangeComplete ==
    /\ hsHist.genuine
    /\ hsHist.initSession # NoKeys
    /\ hsHist.respSession # NoKeys
    /\ hsHist.respFinish = hsHist.initFinish

\* C21: after a complete three-message exchange in which the Responder
\* accepted the Initiator's hello and finish and the Initiator accepted the
\* Responder's hello, the initiator's send key equals the responder's receive
\* key and the initiator's receive key equals the responder's send key.
C21_KeysAgree ==
    ExchangeComplete =>
        /\ hsHist.initSession.send = hsHist.respSession.receive
        /\ hsHist.initSession.receive = hsHist.respSession.send

(***************************************************************************)
(* Claims about the send side of a stream                                  *)
(***************************************************************************)
\* the payload bytes of the first k chunks returned, in order
RECURSIVE ChunkBytes(_, _)
ChunkBytes(chunks, k) ==
    IF k = 0 THEN <<>> ELSE ChunkBytes(chunks, k - 1) \o chunks[k].payload

\* chunk k was returned after finish was called and left the buffer empty
FinDue(k) == streamLog.chunks[k].finished /\ streamLog.chunks[k].empty

\* C22: for any interleaving of queue_send, finish and next_send_chunk on a
\* stream's send side: each chunk's offset is the total payload length of the
\* chunks before it; the payloads, concatenated, are a prefix of the bytes
\* queued; fin is set on the first chunk returned after finish was called
\* that left the buffer empty, and on no other chunk; after the fin chunk
\* next_send_chunk returns None and is_send_drained is true.
C22_ChunksInOrderOneFin ==
    LET chunks == streamLog.chunks IN
    /\ \A k \in DOMAIN chunks :
           /\ chunks[k].offset = Len(ChunkBytes(chunks, k - 1))
           /\ chunks[k].fin <=>
                  (FinDue(k) /\ \A j \in 1..(k - 1) : ~FinDue(j))
           /\ chunks[k].fin => k = Len(chunks)
    /\ IsPrefix(ChunkBytes(chunks, Len(chunks)), streamLog.queued)
    /\ Cardinality({k \in DOMAIN chunks : chunks[k].fin}) <= 1
    /\ FinReturned => is_send_drained(stream)
    /\ (streamRes.op = "next_send_chunk" /\ streamRes.fin_before) =>
           ~streamRes.chunk.some

\* three bytes went out in two chunks, the second with fin, and a later
\* next_send_chunk returned None
C22_Witness ==
    /\ Len(streamLog.chunks) = 2
    /\ ~streamLog.chunks[1].fin /\ streamLog.chunks[2].fin
    /\ streamLog.chunks[2].offset = 2
    /\ ChunkBytes(streamLog.chunks, 2) = <<1, 2, 3>>
    /\ streamRes.op = "next_send_chunk" /\ streamRes.fin_before
    /\ ~streamRes.chunk.some

(***************************************************************************)
(* Claims about the receive side of a stream                               *)
(***************************************************************************)
\* every byte of S and the FIN have been ingested
CutIngested == ingestLog.bytes = 0..(StreamLen - 1) /\ ingestLog.fin

\* C23: when S is cut into non-overlapping chunks, each ingested once in any
\* order, the FIN carried by the last chunk or by an empty chunk at offset
\* |S|: every ingest succeeds; once the last chunk is in, read returns all of
\* S in order (what was read followed by what is ready is S) and
\* is_receive_finished() is true; while a byte of S or the FIN is missing,
\* is_receive_finished() is false.
C23_CutReassembles ==
    /\ ingestRes.err = "Ok"
    /\ IsPrefix(ingestLog.read, StreamS)
    /\ CutIngested =>
           /\ ingestLog.read \o stream.recv.ready = StreamS
           /\ stream_read(stream, StreamLen).out = stream.recv.ready
           /\ is_receive_finished(stream)
    /\ ~CutIngested => ~is_receive_finished(stream)

\* the FIN came first as an empty chunk, the chunks of S after it in
\* descending order, and all of S has been read
C23_Witness ==
    /\ CutIngested
    /\ ingestLog.calls = 3
    /\ ingestRes.op = "read"
    /\ ingestRes.before.ready = StreamS
    /\ ingestLog.read = StreamS
    /\ is_receive_finished(stream)

\* the final offset is known and the chunk ends after it
BeyondFinal ==
    /\ ingestRes.before.final_offset.some
    /\ ingestRes.offset + Len(ingestRes.data) > ingestRes.before.final_offset.v

\* a pending chunk stored at the same offset holds different bytes
Conflicting ==
    /\ ingestRes.offset \in DOMAIN ingestRes.before.pending
    /\ ingestRes.before.pending[ingestRes.offset] # <<>>
    /\ ingestRes.data # <<>> \/ ingestRes.fin
    /\ ingestRes.before.pending[ingestRes.offset] # ingestRes.data

\* C24: ingest fails with DataBeyondFinalOffset exactly when the final offset
\* is already known and offset + |data| exceeds it, and with
\* ConflictingData{offset} when a pending chunk already stored at the same
\* offset holds different bytes; an ingest that returns either error leaves
\* the receive state unchanged.
C24_IngestErrors ==
    ingestRes.op = "ingest" =>
        /\ ingestRes.err = "DataBeyondFinalOffset" <=> BeyondFinal
        /\ (Conflicting /\ ~BeyondFinal) =>
               /\ ingestRes.err = "ConflictingData"
               /\ ingestRes.err_offset = ingestRes.offset
        /\ ingestRes.err = "ConflictingData" => Conflicting
        /\ ingestRes.err # "Ok" => stream.recv = ingestRes.before

(***************************************************************************)
(* Claims about the scheduler                                              *)
(***************************************************************************)
\* what the pops so far returned is what was due, no entry was popped twice,
\* and the heap holds the entries pushed and not yet popped
PopsInOrder ==
    /\ schedRes.op = "pop_stream" => schedRes.out = schedRes.due
    /\ \A i, j \in DOMAIN schedLog.popped :
           schedLog.popped[i] = schedLog.popped[j] => i = j
    /\ {e.sequence : e \in sched.streams} =
           (1..schedLog.pushes) \ {schedLog.popped[i] : i \in DOMAIN schedLog.popped}
    /\ Cardinality(sched.streams) = Len(schedLog.waiting)

\* C25: for any interleaving of push_stream and pop_stream, each pop_stream
\* returns the queued entry of the highest class weight (Control 100 >
\* Interactive 50 > Bulk 10) and, within that class, the one pushed earliest
\* (None when nothing is queued); no entry is popped twice, and every entry
\* pushed is popped in the end.
C25_PopsByClassThenFifo ==
    /\ []PopsInOrder
    /\ \A k \in 1..MaxPushes :
           (schedLog.pushes >= k) ~>
               (\E i \in DOMAIN schedLog.popped : schedLog.popped[i] = k)

\* four entries were pushed, a Bulk one first and two Control ones after it;
\* the Control entries came out in push order, the Bulk entry last
C25_Witness ==
    /\ schedLog.pushes = 4
    /\ schedLog.popped = <<2, 3, 4, 1>>
    /\ schedRes.op = "pop_stream"
    /\ schedRes.out.priority = "Bulk"
    /\ sched.streams = {}

(***************************************************************************)
(* Claims about the datagram queue                                         *)
(***************************************************************************)
\* C26: the queue hands out payloads in exactly the order they were
\* enqueued: dequeue_with_guard returns the head of the queue or None; when
\* the guard refuses the head it returns None and leaves the queue and the
\* guard's counters unchanged; the queue never holds more than max_queue
\* payloads, none longer than max_payload; a failed enqueue leaves the queue
\* unchanged.
C26_HeadOnlyInOrder ==
    /\ dgLog.dequeued \o dgQueue.queue = dgLog.enqueued
    /\ Len(dgQueue.queue) <= dgQueue.config.max_queue
    /\ \A k \in DOMAIN dgQueue.queue : Len(dgQueue.queue[k]) <= dgQueue.config.max_payload
    /\ dgRes.op = "dequeue_with_guard" =>
           /\ dgRes.out.some =>
                  /\ dgRes.queue.queue # <<>>
                  /\ dgRes.out.v = Head(dgRes.queue.queue)
                  /\ dgQueue.queue = Tail(dgRes.queue.queue)
           /\ ~dgRes.out.some => dgQueue = dgRes.queue /\ dgGuard = dgRes.guard
    /\ (dgRes.op = "enqueue" /\ dgRes.err # "Ok") => dgQueue = dgRes.queue

\* a head of two bytes is refused by a guard with one byte of budget while a
\* payload of one byte waits behind it
C26_Witness ==
    /\ dgRes.op = "dequeue_with_guard"
    /\ ~dgRes.out.some
    /\ Len(dgQueue.queue) = 2
    /\ Len(dgQueue.queue[1]) = 2 /\ Len(dgQueue.queue[2]) = 1
    /\ available_budget(dgGuard) = 1
    /\ Len(dgLog.dequeued) = 1

(***************************************************************************)
(* Claims about the buffer pool                                            *)
(***************************************************************************)
\* the allocations the threads hold, in a lease or in their hands
HeldBy(t) ==
    (IF poolThreads[t].lease.some THEN {poolThreads[t].lease.data.id} ELSE {})
        \cup (IF poolThreads[t].hand # NoAlloc THEN {poolThreads[t].hand.id} ELSE {})

\* the allocations in the FIFO
Pooled == {pool.buffers[k].id : k \in DOMAIN pool.buffers}

\* C27: under any interleaving of acquire and lease release by concurrent
\* threads on a shared pool: the FIFO never holds more than max_buffers
\* allocations; no allocation is held by two leases, or by a lease and the
\* FIFO, or twice in the FIFO; an acquire returns a buffer, a fresh one when
\* the FIFO was empty; the buffer returned is all zero with length 0, whatever
\* earlier lease holders wrote into it.
C27_PoolLeasesExclusiveAndZeroed ==
    /\ Len(pool.buffers) <= pool.max_buffers
    /\ Cardinality(Pooled) = Len(pool.buffers)
    /\ \A t \in PoolThreads :
           /\ HeldBy(t) \cap Pooled = {}
           /\ ~(poolThreads[t].lease.some /\ poolThreads[t].hand # NoAlloc)
           /\ \A u \in PoolThreads \ {t} : HeldBy(t) \cap HeldBy(u) = {}
           /\ poolThreads[t].last.done =>
                  /\ poolThreads[t].last.buffer.some
                  /\ poolThreads[t].last.buffer.data.bytes = zeroed(pool.buffer_size)
                  /\ poolThreads[t].last.buffer.len = 0
                  /\ poolThreads[t].last.empty => poolThreads[t].last.fresh
    /\ pool.lock # NoThread => poolThreads[pool.lock].pc \in
           {"acquire_locked", "acquire_built", "drop_locked"}

\* a thread has just been handed, zeroed, an allocation of the pool that an
\* earlier lease holder wrote into, while the other thread holds a lease of
\* a fresh allocation that it wrote into
C27_Witness ==
    \E t \in PoolThreads, u \in PoolThreads :
        /\ t # u
        /\ poolThreads[t].last.done
        /\ poolThreads[t].lease = poolThreads[t].last.buffer
        /\ poolThreads[t].lease.data.id \in poolLog.written
        /\ ~poolThreads[t].last.fresh
        /\ poolThreads[u].lease.some
        /\ poolThreads[u].last.fresh
        /\ poolThreads[u].lease.data.bytes # zeroed(pool.buffer_size)

(***************************************************************************)
(* Claims about the ACK frame codec                                        *)
(***************************************************************************)
\* the ranges of the frame are sorted descending by end, no two of them
\* overlap, and the first one ends at largest
FrameWellFormed(frame) ==
    /\ frame.ranges # <<>>
    /\ frame.ranges[1].end = frame.largest
    /\ \A i, j \in DOMAIN frame.ranges :
           i < j => /\ frame.ranges[i].end >= frame.ranges[j].end
                    /\ frame.ranges[j].end < frame.ranges[i].start

\* C28: for every AckFrame f, decode of the words written by f.encode yields
\* a frame equal to f (same largest, ack delay and range list), and the
\* ranges of every frame constructed or decoded are sorted descending by end
\* and non-overlapping with ranges[0].end = largest.
C28_RoundTripAndWellFormed ==
    /\ frameRes.made.err = "Ok" => FrameWellFormed(frameRes.made.frame)
    /\ frameRes.decoded # NoFrame =>
           /\ frameRes.decoded.err = "Ok"
           /\ frameRes.decoded.frame = frameRes.made.frame
           /\ FrameWellFormed(frameRes.decoded.frame)

(***************************************************************************)
(* Claims about the life of a stream in the manager                        *)
(***************************************************************************)
\* stream id is in the manager with its send side drained, its receive side
\* finished and everything it sent acknowledged
Retired(id) ==
    /\ manager_is_send_drained(mgr, id).v
    /\ manager_is_receive_finished(mgr, id).v
    /\ mgrAcked[id] = SentOf(id)

\* C29: a stream is created in the StreamManager on first reference
\* (get_or_create, ingest), and is removed from it once its send side is
\* drained, its receive side is finished and all its sent packets are
\* acknowledged: a stream that has reached that state does not stay in the
\* manager forever.
C29_StreamCreatedThenRemoved ==
    /\ [][\A id \in StreamIds :
             (GetOrCreate(id) \/ \E chunk \in LifeChunks : LifeIngest(id, chunk))
                 => id \in DOMAIN mgr'.streams]_vars
    /\ \A id \in StreamIds : Retired(id) ~> (id \notin DOMAIN mgr.streams)

(***************************************************************************)
(* Claims about loss detection on an ACK frame                             *)
(***************************************************************************)
\* the outstanding records the frame acknowledges, in queue order
AcknowledgedBy(frame) ==
    SelectSeq(loss.outstanding, LAMBDA info : ack_contains(frame, info.packet_number))

\* the outstanding records the frame does not acknowledge, in queue order
RetainedBy(frame) ==
    SelectSeq(loss.outstanding, LAMBDA info : ~ack_contains(frame, info.packet_number))

\* record r is as far behind the largest record the frame acknowledges as
\* the packet threshold, or as old at now as the time threshold of the
\* manager after the call
DueLost(frame, now, r) ==
    \/ /\ AcknowledgedBy(frame) # <<>>
       /\ AcknowledgedLargest(AcknowledgedBy(frame)).packet_number - r.packet_number
              >= loss.config.packet_threshold
    \/ /\ time_threshold(loss').some
       /\ now - r.time_sent >= time_threshold(loss').v

\* on_ack_frame(frame, now) reports lost the retained records that are due,
\* and leaves the other retained records outstanding
LostExactlyDue(frame, now) ==
    /\ on_ack_frame(loss, frame, now).outcome.lost
           = SelectSeq(RetainedBy(frame), LAMBDA r : DueLost(frame, now, r))
    /\ loss'.outstanding
           = SelectSeq(RetainedBy(frame), LAMBDA r : ~DueLost(frame, now, r))

\* C30: on_ack_frame declares lost exactly those retained (not acknowledged
\* by this frame) records r for which largest.pn - r.pn >= packet_threshold,
\* where largest is the largest record acknowledged by the frame, or
\* now - r.time_sent >= time_threshold(); every other retained record stays
\* outstanding.
C30_LostExactlyDue ==
    [][\A frame \in AckFrames, now \in Times :
          OnAckFrame(frame, now) => LostExactlyDue(frame, now)]_vars

(***************************************************************************)
(* Claims about the RTT estimator and the loss timer                       *)
(***************************************************************************)
\* the RTT values the manager has: the initial RTT of its configuration, and
\* the latest and the smoothed RTT once there has been a sample
RttValues ==
    {loss.config.initial_rtt}
        \cup (IF loss.latest_rtt.some THEN {loss.latest_rtt.v} ELSE {})
        \cup (IF loss.smoothed_rtt.some THEN {loss.smoothed_rtt.v} ELSE {})

\* C31: in every state of the LossManager, time_threshold() equals
\* max(latest_rtt, smoothed_rtt, initial_rtt) x numerator / denominator,
\* using only the RTT values that exist, and is never below 1 us.
C31_TimeThresholdOfLargestRtt ==
    /\ time_threshold(loss).some
    /\ time_threshold(loss).v
           = (SetMax(RttValues) * loss.config.time_threshold_factor_numerator)
                 \div loss.config.time_threshold_factor_denominator
    /\ time_threshold(loss).v >= MICROSECOND

\* the time from the sending of the largest record the frame acknowledges to now
SampleElapsed(frame, now) ==
    now - AcknowledgedLargest(AcknowledgedBy(frame)).time_sent

\* min(frame.ack_delay, max_ack_delay)
SampleDelay(frame) ==
    MinNat(frame.ack_delay_micros * MICROSECOND, loss.config.max_ack_delay)

\* the call reported sample and fed it to the estimator: it is the latest
\* RTT, min_rtt is the least sample so far, and smoothed_rtt and rtt_var are
\* the first sample and half of it, or else 7/8 of the old smoothed RTT plus
\* 1/8 of the sample and 3/4 of the old variance plus 1/4 of the distance
\* between the two, neither below 1 us
Sampled(frame, now, sample) ==
    /\ on_ack_frame(loss, frame, now).outcome.rtt_sample = Some(sample)
    /\ loss'.latest_rtt = Some(sample)
    /\ loss'.min_rtt = Some(IF loss.min_rtt.some THEN MinNat(loss.min_rtt.v, sample)
                            ELSE sample)
    /\ IF loss.smoothed_rtt.some
       THEN /\ loss'.smoothed_rtt
                  = Some(MaxNat((7 * loss.smoothed_rtt.v + sample) \div 8, MICROSECOND))
            /\ loss'.rtt_var
                  = Some(MaxNat((3 * loss.rtt_var.v
                                    + abs_duration_diff(loss.smoothed_rtt.v, sample)) \div 4,
                                MICROSECOND))
       ELSE /\ loss'.smoothed_rtt = Some(sample)
            /\ loss'.rtt_var = Some(sample \div 2)

DueAtTimeout(now, r) ==
    r.ack_eliciting /\ now - r.time_sent >= time_threshold(loss).v

\* the loss time the records left outstanding call for: the earliest
\* time_sent + time_threshold() of the ack-eliciting ones, or
\* now + time_threshold() when there is none
LossTimeOfRemaining(now) ==
    LET deadlines == {loss'.outstanding[i].time_sent + time_threshold(loss').v :
                         i \in {j \in DOMAIN loss'.outstanding :
                                    loss'.outstanding[j].ack_eliciting}}
    IN IF deadlines = {} THEN now + time_threshold(loss').v ELSE SetMin(deadlines)

\* on_loss_timeout(now) reports lost the due records and only them, and
\* leaves the others outstanding
TimeoutLosesDue(now) ==
    /\ on_loss_timeout(loss, now).lost
           = SelectSeq(loss.outstanding, LAMBDA r : DueAtTimeout(now, r))
    /\ loss'.outstanding
           = SelectSeq(loss.outstanding, LAMBDA r : ~DueAtTimeout(now, r))

\* C33: on_loss_timeout(now), called when the loss time has come, declares
\* lost every remaining ack-eliciting outstanding record whose age
\* now - time_sent is at least time_threshold(), removes exactly those
\* records, leaves all other records outstanding, and recomputes loss_time
\* from what remains; a call before the loss time finds no record due and
\* changes nothing.
C33_ExpiredTimeoutLosesDueAndRearms ==
    [][\A now \in Times :
          OnLossTimeout(now)
              => /\ TimeoutLosesDue(now)
                 /\ IF loss.loss_time.some /\ loss.loss_time.v <= now
                    THEN loss'.loss_time = Some(LossTimeOfRemaining(now))
                    ELSE loss' = loss]_vars

\* a timeout has declared a record lost and left outstanding an older one
\* that is not ack-eliciting and a younger one that is
C33_Witness ==
    /\ \E e \in lostLog : e.via = "timeout"
    /\ \E i, j \in DOMAIN loss.outstanding :
           /\ ~loss.outstanding[i].ack_eliciting
           /\ loss.outstanding[j].ack_eliciting
           /\ loss.loss_time = Some(loss.outstanding[j].time_sent + time_threshold(loss).v)

(***************************************************************************)
(* Claims about the pending-ack timer of the ReceiveHistory                *)
(***************************************************************************)
\* record(_, ack_eliciting, now) starts the timer only when none is running
\* and the packet is ack-eliciting, never stops it, and returns true iff a
\* timer is running whose start is at least the ACK delay before now
RecordKeepsTimer(ack_eliciting, now) ==
    /\ hist'.ack_request_time
           = IF hist.ack_request_time.some THEN hist.ack_request_time
             ELSE IF ack_eliciting THEN Some(now)
             ELSE None
    /\ histRes'.immediate
           <=> /\ hist'.ack_request_time.some
               /\ now - hist'.ack_request_time.v >= hist.ack_delay

\* C34: the pending-ack timer is started by the first ack-eliciting record
\* while no timer is running and is cleared only by build_frame; record
\* returns true iff a timer is running and now - timer start >= the
\* configured ack delay, so after build_frame records return false until
\* the next ack-eliciting packet, and records of non-ack-eliciting packets
\* alone never request an ACK.
C34_TimerFromRecordToBuildFrame ==
    [][/\ \A packet_number \in HistNumbers, ack_eliciting \in BOOLEAN, now \in HistTimes :
             Record(packet_number, ack_eliciting, now)
                 => RecordKeepsTimer(ack_eliciting, now)
       /\ \A now \in HistTimes :
             BuildFrame(now) => hist'.ack_request_time = None]_vars

\* a frame has been built, and the record of a packet that is not
\* ack-eliciting has since returned false with no timer running
C34_Witness ==
    /\ hist.last_ack_time.some
    /\ histRes.op = "record"
    /\ ~histRes.immediate
    /\ ~hist.ack_request_time.some

(***************************************************************************)
(* Claims about poll_send_chunk and the sender's credit                    *)
(***************************************************************************)
\* what the window of stream id has consumed; nothing while it has no window
StreamConsumed(ctl, id) ==
    IF id \in DOMAIN ctl.streams THEN ctl.streams[id].consumed ELSE 0

\* the send buffer of stream id in manager m; empty while m has no such stream
SendBufferOf(m, id) ==
    IF id \in DOMAIN m.streams THEN m.streams[id].send.buffer ELSE <<>>

\* the poll returned no more than the windows and max_len allowed before the
\* call, debited the connection's and the stream's window by what it
\* returned, left the other windows alone, returned no flow-control error,
\* and returned every byte it took from the send buffer
PollWithinCredit(id, max_len) ==
    LET payload == mgrRes'.chunk.payload IN
    /\ Len(payload) <= MinNat(MinNat(stream_available(mgr.flow, id),
                                     connection_available(mgr.flow)), max_len)
    /\ mgrRes'.err = "Ok"
    /\ mgr'.flow.connection.consumed = mgr.flow.connection.consumed + Len(payload)
    /\ mgr'.flow.connection.max_data = mgr.flow.connection.max_data
    /\ StreamConsumed(mgr'.flow, id) = StreamConsumed(mgr.flow, id) + Len(payload)
    /\ \A other \in StreamIds \ {id} :
          /\ other \in DOMAIN mgr'.flow.streams <=> other \in DOMAIN mgr.flow.streams
          /\ other \in DOMAIN mgr.flow.streams
                 => mgr'.flow.streams[other] = mgr.flow.streams[other]
    /\ SendBufferOf(mgr, id) = payload \o SendBufferOf(mgr', id)

\* C35: poll_send_chunk(id, max_len) returns a payload no longer than
\* min(stream_available(id), connection_available, max_len) evaluated before
\* the call, debits the connection window and that stream's window by
\* exactly the payload length (other streams' windows are unchanged), and
\* never returns SendWindowExceeded, so bytes taken from a send buffer are
\* never lost to a flow-control error.
C35_PollWithinCredit ==
    [][\A id \in StreamIds, max_len \in CreditPolls :
          PollSendChunk(id, max_len) => PollWithinCredit(id, max_len)]_vars

\* a poll has returned the last of the connection's credit and left bytes
\* of its stream queued
C35_Witness ==
    /\ mgrRes.op = "poll_send_chunk"
    /\ mgrRes.chunk.payload # <<>>
    /\ connection_available(mgr.flow) = 0
    /\ SendBufferOf(mgr, mgrRes.id) # <<>>
    /\ \E other \in StreamIds \ {mgrRes.id} : StreamConsumed(mgr.flow, other) > 0

(***************************************************************************)
(* Claims about the AntiReplayStore                                        *)
(***************************************************************************)
\* the i-th accepted payload of log is, at now, neither older than the TTL
\* nor followed by as many accepted payloads as the store's capacity
StillHeld(log, i, now) ==
    /\ now - log[i].timestamp <= replayStore.ttl
    /\ Len(log) - i < replayStore.capacity

\* C36: record(p) fails with ReplayDetected iff p was recorded earlier and
\* has since neither expired (older than the TTL) nor been evicted; the
\* store never holds more than its capacity, evicting the oldest-recorded
\* entry first, and its lookup set and its eviction queue always contain the
\* same entries.
C36_ReplayIffHeld ==
    /\ replayRes.op = "record" =>
           (~replayRes.ok <=>
               \E i \in DOMAIN replayRes.before :
                   /\ replayRes.before[i].entry = replayRes.entry
                   /\ StillHeld(replayRes.before, i, replayRes.now))
    /\ Len(replayStore.order) <= replayStore.capacity
    /\ Len(replayStore.order) <= Len(replayLog)
    /\ replayStore.order
           = SubSeq(replayLog, Len(replayLog) - Len(replayStore.order) + 1, Len(replayLog))
    /\ replayStore.seen
           = {replayStore.order[i].entry : i \in DOMAIN replayStore.order}
    /\ Cardinality(replayStore.seen) = Len(replayStore.order)

(***************************************************************************)
(* Claims about the FIN of a send stream                                   *)
(***************************************************************************)
\* finish has been called on the stream, every queued byte has been emitted
\* and the FIN has not
FinPending(m, id) ==
    /\ id \in DOMAIN m.streams
    /\ m.streams[id].send.fin_queued
    /\ ~m.streams[id].send.fin_sent
    /\ m.streams[id].send.buffer = <<>>

\* C37: once finish has been called on a stream and all its queued bytes
\* have been emitted, the next poll_send_chunk(id, max_len) with max_len > 0
\* returns the FIN chunk (empty payload, fin = true), also when the stream's
\* or the connection's remaining allowance is 0.
C37_PendingFinNeverBlocked ==
    [][\A id \in StreamIds, max_len \in CreditPolls \ {0} :
          PollSendChunk(id, max_len) /\ FinPending(mgr, id)
              => /\ mgrRes'.chunk.some
                 /\ mgrRes'.chunk.payload = <<>>
                 /\ mgrRes'.chunk.fin]_vars

(***************************************************************************)
(* Claims about the final offset of a receive buffer                       *)
(***************************************************************************)
\* C38: once a stream's final offset is known it never changes, and in
\* every reachable state of the receive buffer delivered_offset + |ready| is
\* at most final_offset: no byte at or beyond the final offset is ever
\* buffered as ready or returned by read, whatever order data and FIN chunks
\* arrive in.
C38_NothingBeyondFinalOffset ==
    /\ [](stream.recv.final_offset.some
            => stream.recv.delivered_offset + Len(stream.recv.ready)
                   <= stream.recv.final_offset.v)
    /\ [][stream.recv.final_offset.some
            => stream'.recv.final_offset = stream.recv.final_offset]_vars

(***************************************************************************)
(* Claims about the confirmation of the handshake                          *)
(***************************************************************************)
\* C39: the Responder reaches Complete and releases session keys and a
\* session ticket only if the payload of the InitiatorFinish it received
\* equals the confirmation value the Initiator computed for this exchange
\* (the first 16 bytes of its chaining key); an InitiatorFinish carrying any
\* other payload is rejected and issues no keys or ticket.
C39_CompleteOnlyOnConfirmation ==
    hsHist.respKeys > 0 \/ responder.stage = "Complete"
        => /\ hsHist.initFinish # NoMessage
           /\ hsHist.respFinish.payload = hsHist.initFinish.payload

(***************************************************************************)
(* Claims about the packet number just recorded                            *)
(***************************************************************************)
\* C40: immediately after record(pn, ..) returns, pn is covered by one of
\* ranges(): capacity truncation only ever discards ranges recorded earlier,
\* never the packet number that was just recorded.
C40_JustRecordedIsCovered ==
    [][\A packet_number \in HistNumbers, ack_eliciting \in BOOLEAN, now \in HistTimes :
          Record(packet_number, ack_eliciting, now)
              => packet_number \in Covered(hist'.ranges)]_vars
====
